---- MODULE Spec2Model ----
(***************************************************************************)
(* Model of the chunking / validation / retrieval-quality pipeline of the  *)
(* course assistant (backend/app/rag).                                     *)
(*                                                                         *)
(* Python values are represented as follows:                               *)
(*   - str            a TLA+ string; character i is SubSeq(s, i, i)        *)
(*   - None           the string NONE                                      *)
(*   - list           a sequence                                           *)
(*   - float score    an integer number of hundredths (0.75 is 75)         *)
(*   - a call result  a record [ok, value, error, step]: the value         *)
(*                    returned, or the exception raised and the step of    *)
(*                    the function that raised it                          *)
(***************************************************************************)
EXTENDS Integers, Sequences, FiniteSets, TLC

VARIABLES
    v_pc, v_in, v_out,            \* validate_file_for_ingestion: position, arguments, result
    q_pc, q_in, q_out,            \* _assess_retrieval_quality: position, arguments, result
    c_pc, c_in, c_out,            \* _validate_citations: position, arguments, result
    k_pc, k_in, k_called, k_chunks, k_unique,   \* chunk_by_source_type, _deduplicate_chunks
    g_pc, g_in, g_results, g_quality, g_llm, g_out, g_trace,  \* generate_answer
    i_pc, i_in, i_source_type, i_parsed, i_chunks, i_method, i_out, i_trace,  \* ingest_file
    r_pc, r_in, r_store, r_out, r_direct,  \* retrieve_chunks, VectorStore.query_similar
    b_pc, b_in, b_files, b_idx, b_results, b_failed, b_last, b_out,  \* ingest_course, discover_course_files
    s_pc, s_in, s_db, s_clock, s_sess, s_loaded, s_new, s_out,  \* VectorStore.store_chunks: two executions, each with its own session
    l_pc, l_loc, l_out,  \* ChunkLocator.to_citation of a chunk's locator
    d_pc, d_out,  \* VectorStore.delete_chunks_by_file, called between store_chunks calls
    e_embedding, e_llm, e_calls  \* the process-wide embedding and completion services

vars_validate == <<v_pc, v_in, v_out>>
vars_quality == <<q_pc, q_in, q_out>>
vars_citations == <<c_pc, c_in, c_out>>
vars_chunk == <<k_pc, k_in, k_called, k_chunks, k_unique>>
vars_generate == <<g_pc, g_in, g_results, g_quality, g_llm, g_out, g_trace>>
vars_ingest == <<i_pc, i_in, i_source_type, i_parsed, i_chunks, i_method, i_out, i_trace>>
vars_retrieve == <<r_pc, r_in, r_store, r_out, r_direct>>
vars_course == <<b_pc, b_in, b_files, b_idx, b_results, b_failed, b_last, b_out>>
vars_store == <<s_pc, s_in, s_db, s_clock, s_sess, s_loaded, s_new, s_out>>
vars_locator == <<l_pc, l_loc, l_out>>
vars_delete == <<d_pc, d_out>>
vars_services == <<e_embedding, e_llm, e_calls>>
vars == <<vars_validate, vars_quality, vars_citations, vars_chunk, vars_generate, vars_ingest, vars_retrieve, vars_course, vars_store, vars_locator, vars_delete, vars_services>>

NONE == "None"

Ok(v) == [ok |-> TRUE, value |-> v, error |-> NONE, step |-> NONE]
Raise(e, s) == [ok |-> FALSE, value |-> NONE, error |-> e, step |-> s]

\* an optional number or path (Optional[...]): Nil is None, Some(x) is x
Nil == <<>>
Some(n) == <<n>>

(***************************************************************************)
(* Strings                                                                 *)
(***************************************************************************)
CharAt(s, i) == SubSeq(s, i, i)

UpperLetters == "ABCDEFGHIJKLMNOPQRSTUVWXYZ"
LowerLetters == "abcdefghijklmnopqrstuvwxyz"

RECURSIVE Concat(_, _, _)
\* pieces[lo] \o ... \o pieces[hi]
Concat(pieces, lo, hi) ==
    IF lo > hi THEN ""
    ELSE IF lo = hi THEN pieces[lo]
    ELSE LET mid == (lo + hi) \div 2
         IN Concat(pieces, lo, mid) \o Concat(pieces, mid + 1, hi)

\* the lower-case letter of each upper-case letter
LowerTable ==
    [c \in {CharAt(UpperLetters, i) : i \in 1..26} |->
        CharAt(LowerLetters, CHOOSE i \in 1..26 : CharAt(UpperLetters, i) = c)]

\* str.lower() on one character
LowerChar(c) == IF c \in DOMAIN LowerTable THEN LowerTable[c] ELSE c

\* str.lower()
Lower(s) == Concat([i \in 1..Len(s) |-> LowerChar(CharAt(s, i))], 1, Len(s))

\* needle in haystack (Python's substring test)
Contains(haystack, needle) ==
    \E i \in 1..(Len(haystack) - Len(needle) + 1) :
        SubSeq(haystack, i, i + Len(needle) - 1) = needle

\* the whitespace characters the inputs use (str.isspace, the regex class \\s)
Whitespace == {" ", "\t", "\n", "\r", "\f"}

IsSpace(c) == c \in Whitespace

\* s.lstrip()
LStrip(s) ==
    LET kept == {i \in 1..Len(s) : ~IsSpace(CharAt(s, i))}
    IN IF kept = {} THEN ""
       ELSE SubSeq(s, CHOOSE i \in kept : \A j \in kept : i <= j, Len(s))

\* s.rstrip()
RStrip(s) ==
    LET kept == {i \in 1..Len(s) : ~IsSpace(CharAt(s, i))}
    IN IF kept = {} THEN ""
       ELSE SubSeq(s, 1, CHOOSE i \in kept : \A j \in kept : j <= i)

\* str.strip()
Strip(s) == RStrip(LStrip(s))

(***************************************************************************)
(* schemas.py: SourceType, ALLOWED_FORMATS, FORMAT_TO_SOURCE_TYPE          *)
(***************************************************************************)
SourceType ==
    {"course_notes", "lecture_slides", "student_notes", "syllabus",
     "practice_problems", "exam", "solution", "assignment"}

ALLOWED_FORMATS == {".pdf", ".pptx", ".docx", ".md", ".txt"}

FORMAT_TO_SOURCE_TYPE(ext) ==
    CASE ext = ".pdf" -> SourceType
      [] ext = ".pptx" -> {"lecture_slides"}
      [] ext = ".docx" -> {"course_notes", "student_notes", "syllabus",
                           "practice_problems", "solution", "assignment"}
      [] ext = ".md" -> {"course_notes", "student_notes"}
      [] ext = ".txt" -> {"course_notes", "student_notes"}
      [] OTHER -> {}

(***************************************************************************)
(* validation.py                                                           *)
(* A file path is [dirs, name]: the directory names from the course root   *)
(* down to the file, and the file name.                                    *)
(***************************************************************************)
\* index of the last "." of name, 0 when there is none (str.rfind, 1-based)
LastDot(name) ==
    IF \E i \in 1..Len(name) : CharAt(name, i) = "."
    THEN CHOOSE i \in 1..Len(name) :
            /\ CharAt(name, i) = "."
            /\ \A j \in (i + 1)..Len(name) : CharAt(name, j) # "."
    ELSE 0

\* pathlib's Path.suffix: from the last dot, unless the dot leads or ends the name
Suffix(name) ==
    LET i == LastDot(name)
    IN IF 1 < i /\ i < Len(name) THEN SubSeq(name, i, Len(name)) ELSE ""

get_file_extension(file_path) == Lower(Suffix(file_path.name))

\* the exception validate_format raises, or NONE
validate_format(file_path) ==
    IF get_file_extension(file_path) \notin ALLOWED_FORMATS
    THEN Raise("IngestionValidationError", "format")
    ELSE Ok(NONE)

\* faulty variant: the category is not compared with the format's categories
validate_format_source_type_mapping_formatOnly(file_path, source_type) ==
    validate_format(file_path)

validate_format_source_type_mapping(file_path, source_type) ==
    LET fmt == validate_format(file_path)
        ext == get_file_extension(file_path)
        allowed_types == FORMAT_TO_SOURCE_TYPE(ext)
    IN IF ~fmt.ok THEN fmt
       ELSE IF source_type \notin allowed_types
            THEN Raise("IngestionValidationError", "mapping")
            ELSE Ok(NONE)

\* file_path.relative_to(course_root) when a course root is given and the
\* file lies under it, else the path as given
RelPath(file_path, course_root) ==
    IF /\ course_root # Nil
       /\ Len(course_root[1]) <= Len(file_path.dirs)
       /\ SubSeq(file_path.dirs, 1, Len(course_root[1])) = course_root[1]
    THEN [dirs |-> SubSeq(file_path.dirs, Len(course_root[1]) + 1, Len(file_path.dirs)),
          name |-> file_path.name]
    ELSE file_path

\* faulty variant: the directory name is looked up as written
ParentDir_noLower(rel_path) ==
    IF rel_path.dirs = <<>> THEN "" ELSE rel_path.dirs[Len(rel_path.dirs)]

\* rel_path.parent.name.lower(): "" for a path with no directory
ParentDir(rel_path) ==
    IF rel_path.dirs = <<>> THEN "" ELSE Lower(rel_path.dirs[Len(rel_path.dirs)])

infer_source_type_from_path(file_path, course_root) ==
    LET parent_dir == ParentDir(RelPath(file_path, course_root))
    IN CASE parent_dir \in {"course_notes", "course-notes"} -> Ok("course_notes")
         [] parent_dir \in {"syllabus", "syllabi"} -> Ok("syllabus")
         [] parent_dir \in {"lectures", "lecture"} -> Ok("lecture_slides")
         [] parent_dir \in {"notes", "note"} -> Ok("student_notes")
         [] parent_dir \in {"tutorials", "tutorial", "practice", "practices"} ->
                Ok("practice_problems")
         [] parent_dir \in {"exams", "exam", "tests", "test"} -> Ok("exam")
         [] parent_dir \in {"solutions", "solution", "sol", "sols"} -> Ok("solution")
         [] parent_dir \in {"assignments", "assignment", "hw", "homework"} ->
                Ok("assignment")
         [] OTHER -> Raise("IngestionValidationError", "infer")

\* faulty variant: the category is always inferred from the directory
validate_file_for_ingestion_inferAlways(file_path, course_root, source_type) ==
    LET step1 == validate_format(file_path)
        step2 == infer_source_type_from_path(file_path, course_root)
    IN IF ~step1.ok THEN step1
       ELSE IF ~step2.ok THEN step2
       ELSE LET step3 == validate_format_source_type_mapping(file_path, step2.value)
            IN IF ~step3.ok THEN step3 ELSE Ok(step2.value)

validate_file_for_ingestion(file_path, course_root, source_type) ==
    LET step1 == validate_format(file_path)
        step2 == IF source_type = NONE
                 THEN infer_source_type_from_path(file_path, course_root)
                 ELSE Ok(source_type)
    IN IF ~step1.ok THEN step1
       ELSE IF ~step2.ok THEN step2
       ELSE LET step3 == validate_format_source_type_mapping(file_path, step2.value)
            IN IF ~step3.ok THEN step3 ELSE Ok(step2.value)

(***************************************************************************)
(* Inputs of the validation gate                                           *)
(***************************************************************************)
MaxDepth == 2

DirNames == {"lectures", "Lectures", "notes", "exams", "course_notes", "hw", "2023", "misc"}

FileNames ==
    {"week1.md", "deck.pptx", "exam.PDF", "sheet.docx", "a.txt", "tool.py",
     "README", ".gitkeep", "v1.2.pdf"}

SeqsUpTo(S, n) == UNION {[1..m -> S] : m \in 0..n}

FilePaths == [dirs : SeqsUpTo(DirNames, MaxDepth), name : FileNames]

\* no course root, or a course root that is the first directory of some paths
CourseRoots == {Nil, Some(<<"misc">>), Some(<<"exams">>)}

InitValidate ==
    /\ v_pc = "call"
    /\ v_in \in [file_path : FilePaths, course_root : CourseRoots,
                 source_type : SourceType \cup {NONE}]
    /\ v_out = NONE
    /\ q_pc = "idle" /\ q_in = NONE /\ q_out = NONE
    /\ c_pc = "idle" /\ c_in = NONE /\ c_out = NONE
    /\ k_pc = "idle" /\ k_in = NONE /\ k_called = NONE /\ k_chunks = NONE /\ k_unique = NONE
    /\ g_pc = "idle" /\ g_in = NONE /\ g_results = NONE /\ g_quality = NONE
    /\ g_llm = NONE /\ g_out = NONE /\ g_trace = NONE
    /\ i_pc = "idle" /\ i_in = NONE /\ i_source_type = NONE /\ i_parsed = NONE
    /\ i_chunks = NONE /\ i_method = NONE /\ i_out = NONE /\ i_trace = NONE
    /\ r_pc = "idle" /\ r_in = NONE /\ r_store = NONE /\ r_out = NONE /\ r_direct = NONE
    /\ b_pc = "idle" /\ b_in = NONE /\ b_files = NONE /\ b_idx = NONE /\ b_results = NONE /\ b_failed = NONE /\ b_last = NONE /\ b_out = NONE
    /\ s_pc = "idle" /\ s_in = NONE /\ s_db = NONE /\ s_clock = NONE /\ s_sess = NONE /\ s_loaded = NONE /\ s_new = NONE /\ s_out = NONE
    /\ l_pc = "idle" /\ l_loc = NONE /\ l_out = NONE
    /\ d_pc = "idle" /\ d_out = NONE
    /\ e_embedding = NONE /\ e_llm = NONE /\ e_calls = NONE

ValidateCall ==
    /\ v_pc = "call"
    /\ v_out' = validate_file_for_ingestion(v_in.file_path, v_in.course_root, v_in.source_type)
    /\ v_pc' = "done"
    /\ UNCHANGED <<v_in, vars_quality, vars_citations, vars_chunk, vars_generate, vars_ingest,
      vars_retrieve, vars_course, vars_store, vars_locator, vars_delete, vars_services>>

SpecValidate == InitValidate /\ [][ValidateCall]_vars

\* C1: with an allowed extension and an explicit category, validation succeeds
\* and returns that category exactly when the category is in the extension's
\* entry of the compatibility matrix, whatever the parent directory; every
\* other pair fails with the validation error.
C1_ExplicitCategoryMatrix ==
    (v_pc = "done" /\ v_in.source_type # NONE
        /\ get_file_extension(v_in.file_path) \in ALLOWED_FORMATS) =>
        LET ext == get_file_extension(v_in.file_path)
            inMatrix == v_in.source_type \in FORMAT_TO_SOURCE_TYPE(ext)
        IN /\ v_out.ok <=> inMatrix
           /\ v_out.ok => v_out.value = v_in.source_type
           /\ ~v_out.ok => v_out.error = "IngestionValidationError"
           /\ (ext = ".pptx" /\ v_out.ok) => v_in.source_type = "lecture_slides"
           /\ (ext \in {".md", ".txt"} /\ v_out.ok) =>
                  v_in.source_type \in {"course_notes", "student_notes"}

\* C1 witness: an explicit category that differs from the one the directory
\* suggests is accepted (exam.PDF under lectures/, given as exam).
C1_Witness ==
    /\ v_pc = "done" /\ v_out.ok
    /\ v_in.source_type = "exam"
    /\ v_in.file_path.name = "exam.PDF"
    /\ v_in.file_path.dirs = <<"lectures">>

\* the directory table, as the set of names of each category
DirectoryTable ==
    [course_notes |-> {"course_notes", "course-notes"},
     syllabus |-> {"syllabus", "syllabi"},
     lecture_slides |-> {"lectures", "lecture"},
     student_notes |-> {"notes", "note"},
     practice_problems |-> {"tutorials", "tutorial", "practice", "practices"},
     exam |-> {"exams", "exam", "tests", "test"},
     solution |-> {"solutions", "solution", "sol", "sols"},
     assignment |-> {"assignments", "assignment", "hw", "homework"}]

\* what a validation without explicit category must have done when the
\* directory name looked up is `dir`
InferredFrom(dir) ==
    IF \E category \in DOMAIN DirectoryTable : Lower(dir) \in DirectoryTable[category]
    THEN /\ v_out.ok => Lower(dir) \in DirectoryTable[v_out.value]
         /\ ~v_out.ok => v_out.error = "IngestionValidationError" /\ v_out.step = "mapping"
    ELSE ~v_out.ok /\ v_out.error = "IngestionValidationError" /\ v_out.step = "infer"

\* the name of the last directory of the path as given ("" if there is none)
ImmediateParent(file_path) ==
    IF file_path.dirs = <<>> THEN "" ELSE file_path.dirs[Len(file_path.dirs)]

\* the file lies directly in the course root that was passed
InCourseRoot == v_in.course_root # Nil /\ v_in.file_path.dirs = v_in.course_root[1]

\* the file lies in or below the course root that was passed
UnderCourseRoot ==
    /\ v_in.course_root # Nil
    /\ Len(v_in.course_root[1]) <= Len(v_in.file_path.dirs)
    /\ SubSeq(v_in.file_path.dirs, 1, Len(v_in.course_root[1])) = v_in.course_root[1]

\* C16 as stated: without explicit category, a file of an allowed format gets
\* the category of the lowercased name of its immediate parent directory, and
\* fails with the validation error when the table has no such name; a file
\* directly in the course root fails.
C16_Original ==
    (/\ v_pc = "done" /\ v_in.source_type = NONE
     /\ get_file_extension(v_in.file_path) \in ALLOWED_FORMATS) =>
        /\ InferredFrom(ImmediateParent(v_in.file_path))
        /\ InCourseRoot => ~v_out.ok

\* C16: without explicit category, a file of an allowed format gets the
\* category of the lowercased name of a single directory: the immediate
\* parent of the path relative to the course root when a course root is
\* passed and the file lies under it (none for a file directly in that
\* root), the immediate parent of the path as given otherwise.  When the
\* table has no such name the call fails with the validation error of the
\* inference step; so does every file in a sub-folder that is not in the
\* table and every file directly in the course root passed.
C16_ParentDirectoryOnly ==
    (/\ v_pc = "done" /\ v_in.source_type = NONE
     /\ get_file_extension(v_in.file_path) \in ALLOWED_FORMATS) =>
        /\ InferredFrom(IF InCourseRoot THEN "" ELSE ImmediateParent(v_in.file_path))
        /\ InCourseRoot => ~v_out.ok /\ v_out.step = "infer"
        /\ ImmediateParent(v_in.file_path) = "2023" => ~v_out.ok /\ v_out.step = "infer"
        /\ (~UnderCourseRoot /\ ImmediateParent(v_in.file_path) = "exams"
               /\ Suffix(v_in.file_path.name) = ".pdf") => v_out = Ok("exam")

\* C16 witness: exams/2023/v1.2.pdf, validated without a category, failed at
\* the inference step.
C16_Witness ==
    /\ v_pc = "done" /\ v_in.source_type = NONE
    /\ v_in.file_path.dirs = <<"exams", "2023">>
    /\ v_in.file_path.name = "v1.2.pdf"
    /\ ~v_out.ok /\ v_out.step = "infer"

(***************************************************************************)
(* schemas.py: ChunkLocator, Chunk                                         *)
(* An optional number (page, slide, ...) is Nil or Some(n).                 *)
(***************************************************************************)
Digits == "0123456789"

RECURSIVE IntStr(_)
\* str(n) of a natural number
IntStr(n) ==
    IF n < 10 THEN CharAt(Digits, n + 1)
    ELSE IntStr(n \div 10) \o CharAt(Digits, (n % 10) + 1)

RECURSIVE Join(_, _)
\* sep.join(parts)
Join(parts, sep) ==
    IF parts = <<>> THEN ""
    ELSE IF Len(parts) = 1 THEN parts[1]
    ELSE parts[1] \o sep \o Join(Tail(parts), sep)

\* Python truthiness of an optional number: None and 0 are false
TruthyInt(x) == x # Nil /\ x[1] # 0

\* Python truthiness of an optional string: None and "" are false
TruthyStr(x) == x # NONE /\ x # ""

ChunkLocator_to_citation(locator) ==
    LET parts ==
            (IF TruthyStr(locator.section) THEN <<"Section " \o locator.section>> ELSE <<>>)
         \o (IF TruthyInt(locator.page) THEN <<"page " \o IntStr(locator.page[1])>> ELSE <<>>)
         \o (IF TruthyInt(locator.slide) THEN <<"slide " \o IntStr(locator.slide[1])>> ELSE <<>>)
         \o (IF TruthyInt(locator.paragraph)
             THEN <<"paragraph " \o IntStr(locator.paragraph[1])>> ELSE <<>>)
         \o (IF locator.line_range # Nil
             THEN <<"lines " \o IntStr(locator.line_range[1]) \o "-"
                             \o IntStr(locator.line_range[2])>>
             ELSE <<>>)
    IN IF parts = <<>> THEN "unknown location" ELSE Join(parts, ", ")

\* Path(file_path).name, then the locator's citation
Chunk_to_citation(chunk) ==
    chunk.file_path.name \o ", " \o ChunkLocator_to_citation(chunk.locator)

Locator(page, slide, section) ==
    [page |-> page, slide |-> slide, section |-> section, paragraph |-> Nil, line_range |-> Nil]

(***************************************************************************)
(* generate.py: _assess_retrieval_quality                                  *)
(* A retrieval result is [chunk, similarity_score].                        *)
(***************************************************************************)
\* sum(1 for result in retrieval_results if result.similarity_score >= min_confidence)
HighQualityCount(retrieval_results, min_confidence) ==
    Cardinality({i \in 1..Len(retrieval_results) :
                    retrieval_results[i].similarity_score >= min_confidence})

\* faulty variant: only the top result is compared with the threshold
assess_retrieval_quality_topOnly(retrieval_results, min_confidence, min_high_quality_chunks) ==
    IF retrieval_results = <<>>
    THEN [is_sufficient |-> FALSE,
          quality_metrics |-> [top_similarity |-> 0, high_quality_chunks |-> 0,
                               total_chunks |-> 0, is_sufficient |-> FALSE]]
    ELSE LET top_similarity == retrieval_results[1].similarity_score
             high_quality_chunks == HighQualityCount(retrieval_results, min_confidence)
             is_sufficient == top_similarity >= min_confidence
         IN [is_sufficient |-> is_sufficient,
             quality_metrics |->
                [top_similarity |-> top_similarity,
                 high_quality_chunks |-> high_quality_chunks,
                 total_chunks |-> Len(retrieval_results),
                 min_confidence_threshold |-> min_confidence,
                 min_high_quality_chunks_required |-> min_high_quality_chunks,
                 is_sufficient |-> is_sufficient]]

assess_retrieval_quality(retrieval_results, min_confidence, min_high_quality_chunks) ==
    IF retrieval_results = <<>>
    THEN [is_sufficient |-> FALSE,
          quality_metrics |-> [top_similarity |-> 0, high_quality_chunks |-> 0,
                               total_chunks |-> 0, is_sufficient |-> FALSE]]
    ELSE LET top_similarity == retrieval_results[1].similarity_score
             high_quality_chunks == HighQualityCount(retrieval_results, min_confidence)
             is_sufficient ==
                /\ top_similarity >= min_confidence
                /\ high_quality_chunks >= min_high_quality_chunks
         IN [is_sufficient |-> is_sufficient,
             quality_metrics |->
                [top_similarity |-> top_similarity,
                 high_quality_chunks |-> high_quality_chunks,
                 total_chunks |-> Len(retrieval_results),
                 min_confidence_threshold |-> min_confidence,
                 min_high_quality_chunks_required |-> min_high_quality_chunks,
                 is_sufficient |-> is_sufficient]]

(***************************************************************************)
(* Stored chunks a query can retrieve                                      *)
(***************************************************************************)
StoredChunk(id, name, source_type, text, locator, chunk_index) ==
    [id |-> id,
     file_path |-> [dirs |-> <<"data", "raw", "CS479", "lectures">>, name |-> name],
     source_type |-> source_type, text |-> text, locator |-> locator,
     chunk_index |-> chunk_index, char_start |-> Nil, char_end |-> Nil, heading |-> NONE]

StoredChunks ==
    <<StoredChunk("c1", "a.pdf", "lecture_slides", "gradient descent updates the weights",
                  Locator(Some(3), Nil, NONE), 0),
      StoredChunk("c2", "b.pdf", "course_notes", "the chain rule gives the gradient",
                  Locator(Some(1), Nil, NONE), 0),
      StoredChunk("c3", "Deck.pptx", "lecture_slides", "backpropagation in two passes",
                  Locator(Nil, Some(2), NONE), 1),
      StoredChunk("c4", "a.pdf", "lecture_slides", "learning rate schedules",
                  Locator(Some(0), Nil, NONE), 1)>>

(***************************************************************************)
(* The quality gate on its own                                             *)
(***************************************************************************)
MaxQualityResults == 3

Scores == {40, 50, 75, 80, 90}
Confidences == {75, 85}
Quorums == {1, 2, 3}

\* results with the given scores, over the first stored chunks
ResultsWithScores(scores) ==
    [i \in 1..Len(scores) |-> [chunk |-> StoredChunks[i], similarity_score |-> scores[i]]]

InitQuality ==
    /\ q_pc = "call"
    /\ q_in \in [scores : SeqsUpTo(Scores, MaxQualityResults),
                  min_confidence : Confidences,
                  min_high_quality_chunks : Quorums]
    /\ q_out = NONE
    /\ v_pc = "idle" /\ v_in = NONE /\ v_out = NONE
    /\ c_pc = "idle" /\ c_in = NONE /\ c_out = NONE
    /\ k_pc = "idle" /\ k_in = NONE /\ k_called = NONE /\ k_chunks = NONE /\ k_unique = NONE
    /\ g_pc = "idle" /\ g_in = NONE /\ g_results = NONE /\ g_quality = NONE
    /\ g_llm = NONE /\ g_out = NONE /\ g_trace = NONE
    /\ i_pc = "idle" /\ i_in = NONE /\ i_source_type = NONE /\ i_parsed = NONE
    /\ i_chunks = NONE /\ i_method = NONE /\ i_out = NONE /\ i_trace = NONE
    /\ r_pc = "idle" /\ r_in = NONE /\ r_store = NONE /\ r_out = NONE /\ r_direct = NONE
    /\ b_pc = "idle" /\ b_in = NONE /\ b_files = NONE /\ b_idx = NONE /\ b_results = NONE /\ b_failed = NONE /\ b_last = NONE /\ b_out = NONE
    /\ s_pc = "idle" /\ s_in = NONE /\ s_db = NONE /\ s_clock = NONE /\ s_sess = NONE /\ s_loaded = NONE /\ s_new = NONE /\ s_out = NONE
    /\ l_pc = "idle" /\ l_loc = NONE /\ l_out = NONE
    /\ d_pc = "idle" /\ d_out = NONE
    /\ e_embedding = NONE /\ e_llm = NONE /\ e_calls = NONE

AssessCall ==
    /\ q_pc = "call"
    /\ q_out' = assess_retrieval_quality(ResultsWithScores(q_in.scores), q_in.min_confidence,
                                         q_in.min_high_quality_chunks)
    /\ q_pc' = "done"
    /\ UNCHANGED <<q_in, vars_validate, vars_citations, vars_chunk, vars_generate, vars_ingest,
      vars_retrieve, vars_course, vars_store, vars_locator, vars_delete, vars_services>>

SpecQuality == InitQuality /\ [][AssessCall]_vars

\* C2: the gate reports sufficient exactly when the list is non-empty, its
\* first result reaches minConfidence and at least minHighQualityChunks results
\* reach minConfidence; with 0.75 and 2, [0.9, 0.8, 0.5] is sufficient and
\* [0.9, 0.5, 0.4] and [] are not.
C2_SufficiencyRule ==
    q_pc = "done" =>
        LET scores == q_in.scores
            clearing == {i \in 1..Len(scores) : scores[i] >= q_in.min_confidence}
            expected ==
                /\ scores # <<>>
                /\ scores[1] >= q_in.min_confidence
                /\ Cardinality(clearing) >= q_in.min_high_quality_chunks
            example == q_in.min_confidence = 75 /\ q_in.min_high_quality_chunks = 2
        IN /\ q_out.is_sufficient <=> expected
           /\ q_out.quality_metrics.is_sufficient = q_out.is_sufficient
           /\ (example /\ scores = <<90, 80, 50>>) => q_out.is_sufficient
           /\ (example /\ scores = <<90, 50, 40>>) => ~q_out.is_sufficient
           /\ (example /\ scores = <<>>) => ~q_out.is_sufficient

\* C2 witness: a strong top result without a quorum is refused
\* ([0.9, 0.5, 0.4] with 0.75 and 2).
C2_Witness ==
    /\ q_pc = "done"
    /\ q_in.scores = <<90, 50, 40>>
    /\ q_in.min_confidence = 75 /\ q_in.min_high_quality_chunks = 2
    /\ ~q_out.is_sufficient

(***************************************************************************)
(* generate.py: _validate_citations                                        *)
(* valid_citations is a Python set: the order in which the loop visits it  *)
(* is not fixed by the code, so it is an argument (order), the same for    *)
(* every claimed citation of one call.                                     *)
(***************************************************************************)
ValidCitations(retrieval_results) ==
    {Chunk_to_citation(retrieval_results[i].chunk) : i \in 1..Len(retrieval_results)}

\* the enumerations of a set, each element once
Orders(S) ==
    {o \in [1..Cardinality(S) -> S] : \A i, j \in 1..Cardinality(S) : i # j => o[i] # o[j]}

\* faulty variant: the partial match compares without lowering
PartialMatch_caseSensitive(citation, valid_citation) ==
    \/ Contains(valid_citation, citation)
    \/ Contains(citation, valid_citation)

\* citation_lower in valid_citation.lower() or valid_citation.lower() in citation_lower
PartialMatch(citation, valid_citation) ==
    LET citation_lower == Lower(citation)
    IN \/ Contains(Lower(valid_citation), citation_lower)
       \/ Contains(citation_lower, Lower(valid_citation))

\* faulty variant: the citation is kept as the completion wrote it
FirstPartialMatch_asClaimed(citation, order) ==
    IF \E i \in 1..Len(order) : PartialMatch(citation, order[i]) THEN <<citation>> ELSE <<>>

RECURSIVE FirstPartialMatch(_, _)
\* the inner loop: the first valid citation, in visiting order, that matches
FirstPartialMatch(citation, order) ==
    IF order = <<>> THEN <<>>
    ELSE IF PartialMatch(citation, Head(order)) THEN <<Head(order)>>
    ELSE FirstPartialMatch(citation, Tail(order))

RECURSIVE validate_citations(_, _, _)
validate_citations(citations, retrieval_results, order) ==
    IF citations = <<>> THEN <<>>
    ELSE LET citation == Head(citations)
             rest == validate_citations(Tail(citations), retrieval_results, order)
         IN IF citation \in ValidCitations(retrieval_results)
            THEN <<citation>> \o rest
            ELSE FirstPartialMatch(citation, order) \o rest

(***************************************************************************)
(* Citation validation on its own                                          *)
(***************************************************************************)
MaxClaimed == 2
MaxCitedResults == 2

\* what a completion may cite: exact, re-cased, shortened, extended, unknown
ClaimedCitations ==
    {"a.pdf, page 3", "A.PDF, PAGE 3", "b.pdf, page 1", "a.pdf",
     "Deck.pptx, slide 2 (title)", "c.pdf, page 9"}

DistinctSeqsUpTo(S, n) ==
    {q \in SeqsUpTo(S, n) : \A i, j \in 1..Len(q) : i # j => q[i] # q[j]}

\* lists of distinct stored chunks, as retrieval results
ResultLists(n) ==
    {[i \in 1..Len(q) |-> [chunk |-> StoredChunks[q[i]], similarity_score |-> 90]] :
        q \in DistinctSeqsUpTo(1..Len(StoredChunks), n)}

InitCitations ==
    /\ c_pc = "call"
    /\ c_in \in [citations : DistinctSeqsUpTo(ClaimedCitations, MaxClaimed),
                  retrieval_results : ResultLists(MaxCitedResults)]
    /\ c_out = NONE
    /\ v_pc = "idle" /\ v_in = NONE /\ v_out = NONE
    /\ q_pc = "idle" /\ q_in = NONE /\ q_out = NONE
    /\ k_pc = "idle" /\ k_in = NONE /\ k_called = NONE /\ k_chunks = NONE /\ k_unique = NONE
    /\ g_pc = "idle" /\ g_in = NONE /\ g_results = NONE /\ g_quality = NONE
    /\ g_llm = NONE /\ g_out = NONE /\ g_trace = NONE
    /\ i_pc = "idle" /\ i_in = NONE /\ i_source_type = NONE /\ i_parsed = NONE
    /\ i_chunks = NONE /\ i_method = NONE /\ i_out = NONE /\ i_trace = NONE
    /\ r_pc = "idle" /\ r_in = NONE /\ r_store = NONE /\ r_out = NONE /\ r_direct = NONE
    /\ b_pc = "idle" /\ b_in = NONE /\ b_files = NONE /\ b_idx = NONE /\ b_results = NONE /\ b_failed = NONE /\ b_last = NONE /\ b_out = NONE
    /\ s_pc = "idle" /\ s_in = NONE /\ s_db = NONE /\ s_clock = NONE /\ s_sess = NONE /\ s_loaded = NONE /\ s_new = NONE /\ s_out = NONE
    /\ l_pc = "idle" /\ l_loc = NONE /\ l_out = NONE
    /\ d_pc = "idle" /\ d_out = NONE
    /\ e_embedding = NONE /\ e_llm = NONE /\ e_calls = NONE

ValidateCitationsCall ==
    /\ c_pc = "call"
    /\ \E order \in Orders(ValidCitations(c_in.retrieval_results)) :
          c_out' = validate_citations(c_in.citations, c_in.retrieval_results, order)
    /\ c_pc' = "done"
    /\ UNCHANGED <<c_in, vars_validate, vars_quality, vars_chunk, vars_generate, vars_ingest,
      vars_retrieve, vars_course, vars_store, vars_locator, vars_delete, vars_services>>

SpecCitations == InitCitations /\ [][ValidateCitationsCall]_vars

\* the rule of the claim: equal, or one contains the other ignoring case
C5_Matches(claim, available) ==
    \/ claim = available
    \/ Contains(Lower(available), Lower(claim))
    \/ Contains(Lower(claim), Lower(available))

\* C5: a claimed citation is accepted (contributes one entry to the
\* validated list) exactly when it equals an available citation or matches one
\* case-insensitively as a substring in either direction; a claim matching
\* none contributes nothing. With available {"a.pdf, page 3"}, the claim
\* "A.PDF, PAGE 3" is accepted and "b.pdf, page 1" is rejected.
C5_CitationAcceptance ==
    c_pc = "done" =>
        LET claims == c_in.citations
            available == ValidCitations(c_in.retrieval_results)
            Accepted(i) == \E a \in available : C5_Matches(claims[i], a)
            accepted == SelectSeq([i \in 1..Len(claims) |-> i], Accepted)
        IN /\ Len(c_out) = Len(accepted)
           /\ \A k \in 1..Len(accepted) :
                 LET claim == claims[accepted[k]]
                 IN /\ c_out[k] \in available \cup {claim}
                    /\ C5_Matches(claim, c_out[k])
           /\ (available = {"a.pdf, page 3"} /\ claims = <<"A.PDF, PAGE 3">>) =>
                 c_out = <<"a.pdf, page 3">>
           /\ (available = {"a.pdf, page 3"} /\ claims = <<"b.pdf, page 1">>) =>
                 c_out = <<>>

\* C5 witness: the re-cased claim was accepted against {"a.pdf, page 3"}
\* while the unknown one next to it was dropped.
C5_Witness ==
    /\ c_pc = "done"
    /\ ValidCitations(c_in.retrieval_results) = {"a.pdf, page 3"}
    /\ c_in.citations = <<"c.pdf, page 9", "A.PDF, PAGE 3">>
    /\ c_out = <<"a.pdf, page 3">>

(***************************************************************************)
(* generate.py: generate_answer, one request                               *)
(* g_in.min_confidence and g_in.min_high_quality_chunks are the thresholds *)
(* in force (the override, or the configured default).  The vector store   *)
(* and the completion service are external: what they return is chosen     *)
(* from the bounded sets below: retrieve_chunks either returns a list of   *)
(* results sorted by similarity or raises.                                 *)
(***************************************************************************)
MaxRetrieved == 2

Queries == {"", "  ", "what is backpropagation"}
GenScores == {50, 80, 90}
GenClaimedCitations == {"a.pdf, page 3", "A.PDF, PAGE 3", "c.pdf, page 9"}

\* similarity never increases along the list (query_similar sorts it)
SortedScoreSeqs(n) ==
    {q \in SeqsUpTo(GenScores, n) : \A i \in 1..(Len(q) - 1) : q[i] >= q[i + 1]}

RetrievedLists ==
    {[i \in 1..Len(c) |-> [chunk |-> StoredChunks[c[i]], similarity_score |-> sc[i]]] :
        <<c, sc>> \in {p \in DistinctSeqsUpTo(1..Len(StoredChunks), MaxRetrieved)
                            \X SortedScoreSeqs(MaxRetrieved) : Len(p[1]) = Len(p[2])}}

\* not query or not query.strip()
BlankQuery(query) == query = "" \/ Strip(query) = ""

\* llm.py: chunks_used of the completion's response
LlmChunksUsed(retrieval_results, citations) ==
    LET cited == {i \in 1..Len(retrieval_results) :
                    \E j \in 1..Len(citations) :
                        citations[j] = Chunk_to_citation(retrieval_results[i].chunk)}
        Keep(i) == i \in cited
        idx == SelectSeq([i \in 1..Len(retrieval_results) |-> i], Keep)
    IN [k \in 1..Len(idx) |-> retrieval_results[idx[k]].chunk.id]

InitGenerate ==
    /\ g_pc = "retrieve"
    /\ g_in \in [query : Queries, mode : {"answer", "teach"},
                  strict_quality_check : BOOLEAN,
                  min_confidence : {75}, min_high_quality_chunks : {1, 2}]
    /\ g_results = <<>> /\ g_quality = NONE /\ g_llm = NONE /\ g_out = NONE
    /\ g_trace = <<>>
    /\ v_pc = "idle" /\ v_in = NONE /\ v_out = NONE
    /\ q_pc = "idle" /\ q_in = NONE /\ q_out = NONE
    /\ c_pc = "idle" /\ c_in = NONE /\ c_out = NONE
    /\ k_pc = "idle" /\ k_in = NONE /\ k_called = NONE /\ k_chunks = NONE /\ k_unique = NONE
    /\ i_pc = "idle" /\ i_in = NONE /\ i_source_type = NONE /\ i_parsed = NONE
    /\ i_chunks = NONE /\ i_method = NONE /\ i_out = NONE /\ i_trace = NONE
    /\ r_pc = "idle" /\ r_in = NONE /\ r_store = NONE /\ r_out = NONE /\ r_direct = NONE
    /\ b_pc = "idle" /\ b_in = NONE /\ b_files = NONE /\ b_idx = NONE /\ b_results = NONE /\ b_failed = NONE /\ b_last = NONE /\ b_out = NONE
    /\ s_pc = "idle" /\ s_in = NONE /\ s_db = NONE /\ s_clock = NONE /\ s_sess = NONE /\ s_loaded = NONE /\ s_new = NONE /\ s_out = NONE
    /\ l_pc = "idle" /\ l_loc = NONE /\ l_out = NONE
    /\ d_pc = "idle" /\ d_out = NONE
    /\ e_embedding = NONE /\ e_llm = NONE /\ e_calls = NONE

others_generate == <<vars_validate, vars_quality, vars_citations, vars_chunk, vars_ingest,
      vars_retrieve, vars_course, vars_store, vars_locator, vars_delete, vars_services>>

\* Step 1: retrieve_chunks returns (a blank query returns [] without a store call)
GenRetrieve ==
    /\ g_pc = "retrieve"
    /\ g_results' \in (IF BlankQuery(g_in.query) THEN {<<>>} ELSE RetrievedLists)
    /\ g_trace' = Append(g_trace, "retrieve_chunks")
    /\ g_pc' = "check_empty"
    /\ UNCHANGED <<g_in, g_quality, g_llm, g_out, others_generate>>

\* Step 1, the store call raises: the exception leaves generate_answer
GenRetrieveRaises ==
    /\ g_pc = "retrieve"
    /\ ~BlankQuery(g_in.query)
    /\ g_out' = Raise("Exception", "retrieve_chunks")
    /\ g_trace' = Append(g_trace, "retrieve_chunks raises")
    /\ g_pc' = "done"
    /\ UNCHANGED <<g_in, g_results, g_quality, g_llm, others_generate>>

\* faulty variant: the empty retrieval is not detected
NoResults_never(retrieval_results) == FALSE

\* not retrieval_results
NoResults(retrieval_results) == retrieval_results = <<>>

\* if not retrieval_results: raise ValueError
GenCheckEmpty ==
    /\ g_pc = "check_empty"
    /\ IF NoResults(g_results)
       THEN g_out' = Raise("ValueError", "no_chunks") /\ g_pc' = "done"
       ELSE g_out' = g_out /\ g_pc' = "assess"
    /\ UNCHANGED <<g_in, g_results, g_quality, g_llm, g_trace, others_generate>>

\* Step 2: _assess_retrieval_quality
GenAssess ==
    /\ g_pc = "assess"
    /\ g_quality' = assess_retrieval_quality(g_results, g_in.min_confidence,
                                             g_in.min_high_quality_chunks)
    /\ g_trace' = Append(g_trace, "_assess_retrieval_quality")
    /\ g_pc' = "gate"
    /\ UNCHANGED <<g_in, g_results, g_llm, g_out, others_generate>>

\* the exception of Step 3, from the gate's metrics
InsufficientMaterialError(query, quality_metrics, confidence_threshold, high_quality_threshold) ==
    [ok |-> FALSE, error |-> "InsufficientMaterialError", step |-> "gate",
     value |-> [query |-> query,
                top_similarity |-> quality_metrics.top_similarity,
                high_quality_chunks |-> quality_metrics.high_quality_chunks,
                total_chunks |-> quality_metrics.total_chunks,
                message |-> <<"insufficient", quality_metrics.top_similarity,
                              confidence_threshold, quality_metrics.high_quality_chunks,
                              quality_metrics.total_chunks, high_quality_threshold>>]]

\* faulty variant: the gate never refuses
Refuses_never(strict_quality_check, is_sufficient) == FALSE

\* faulty variant: the gate refuses whatever strict_quality_check says
Refuses_ignoresStrict(strict_quality_check, is_sufficient) == ~is_sufficient

\* whether Step 3 refuses
Refuses(strict_quality_check, is_sufficient) == strict_quality_check /\ ~is_sufficient

\* Step 3: if strict_quality_check and not is_sufficient: raise
GenGate ==
    /\ g_pc = "gate"
    /\ IF Refuses(g_in.strict_quality_check, g_quality.is_sufficient)
       THEN /\ g_out' = InsufficientMaterialError(g_in.query, g_quality.quality_metrics,
                               g_in.min_confidence, g_in.min_high_quality_chunks)
            /\ g_pc' = "done"
       ELSE g_out' = g_out /\ g_pc' = "llm"
    /\ UNCHANGED <<g_in, g_results, g_quality, g_llm, g_trace, others_generate>>

\* Step 6: the completion service is not available
GenLlmUnavailable ==
    /\ g_pc = "llm"
    /\ g_out' = Raise("ValueError", "llm_unavailable")
    /\ g_trace' = Append(g_trace, "get_llm_service")
    /\ g_pc' = "done"
    /\ UNCHANGED <<g_in, g_results, g_quality, g_llm, others_generate>>

\* Step 7: the completion call fails
GenLlmFails ==
    /\ g_pc = "llm"
    /\ g_out' = Raise("ValueError", "llm_generate_answer")
    /\ g_trace' = g_trace \o <<"get_llm_service", "llm_generate_answer">>
    /\ g_pc' = "done"
    /\ UNCHANGED <<g_in, g_results, g_quality, g_llm, others_generate>>

\* Steps 4 to 7: the completion answers, citing what it cites
GenLlm ==
    /\ g_pc = "llm"
    /\ \E citations \in DistinctSeqsUpTo(GenClaimedCitations, MaxClaimed) :
          g_llm' = [answer |-> "answer",
                    user_prompt |-> IF g_in.mode = "teach" THEN "get_teaching_prompt"
                                    ELSE "get_rag_user_prompt",
                    citations |-> citations,
                    chunks_used |-> LlmChunksUsed(g_results, citations)]
    /\ g_trace' = g_trace \o <<"get_llm_service", "llm_generate_answer">>
    /\ g_pc' = "validate"
    /\ UNCHANGED <<g_in, g_results, g_quality, g_out, others_generate>>

\* Steps 8 and 9: validate the citations and return
GenReturn ==
    /\ g_pc = "validate"
    /\ \E order \in Orders(ValidCitations(g_results)) :
          g_out' = Ok([answer |-> g_llm.answer,
                       citations |-> validate_citations(g_llm.citations, g_results, order),
                       chunks_used |-> g_llm.chunks_used,
                       retrieval_results |-> g_results,
                       retrieval_quality |-> g_quality.quality_metrics])
    /\ g_trace' = Append(g_trace, "_validate_citations")
    /\ g_pc' = "done"
    /\ UNCHANGED <<g_in, g_results, g_quality, g_llm, others_generate>>

NextGenerate ==
    \/ GenRetrieve \/ GenRetrieveRaises \/ GenCheckEmpty \/ GenAssess \/ GenGate
    \/ GenLlmUnavailable \/ GenLlmFails \/ GenLlm \/ GenReturn

SpecGenerate == InitGenerate /\ [][NextGenerate]_vars

\* whether the call named f has been made
Called(trace, f) == \E i \in 1..Len(trace) : trace[i] = f

\* C3: with strictQualityCheck, a non-empty retrieval that the gate finds
\* insufficient ends the call with InsufficientMaterialError carrying the
\* query and the gate's top similarity, high-quality count and total count
\* for that retrieval; no answer is returned and no completion is asked for.
C3_StrictRefusal ==
    (/\ g_pc \in {"llm", "validate", "done"}
     /\ Called(g_trace, "_assess_retrieval_quality")
     /\ g_in.strict_quality_check
     /\ g_results # <<>>
     /\ ~g_quality.is_sufficient) =>
        /\ g_pc = "done"
        /\ ~g_out.ok
        /\ g_out.error = "InsufficientMaterialError"
        /\ g_out.value.query = g_in.query
        /\ g_out.value.top_similarity = g_results[1].similarity_score
        /\ g_out.value.high_quality_chunks =
              Cardinality({i \in 1..Len(g_results) :
                              g_results[i].similarity_score >= g_in.min_confidence})
        /\ g_out.value.total_chunks = Len(g_results)
        /\ ~Called(g_trace, "llm_generate_answer")

\* C3 witness: a refusal of a two-result retrieval with one strong result
\* under a quorum of two.
C3_Witness ==
    /\ g_pc = "done"
    /\ g_in.strict_quality_check /\ g_in.min_high_quality_chunks = 2
    /\ Len(g_results) = 2
    /\ g_results[1].similarity_score = 90 /\ g_results[2].similarity_score = 50
    /\ g_out.error = "InsufficientMaterialError"
    /\ g_out.value.high_quality_chunks = 1

\* C4: an empty retrieval ends the call with the retrieval error before the
\* quality gate: the assessment is never made for it, and so the refusal
\* error is never raised, whatever strictQualityCheck is.
C4_EmptyBeforeGate ==
    (/\ g_pc \notin {"retrieve", "check_empty"}
     /\ Called(g_trace, "retrieve_chunks")
     /\ g_results = <<>>) =>
        /\ g_pc = "done"
        /\ ~g_out.ok
        /\ g_out.error = "ValueError" /\ g_out.step = "no_chunks"
        /\ g_trace = <<"retrieve_chunks">>

\* C4 witness: a non-strict request whose blank query retrieved nothing ended
\* with the retrieval error.
C4_Witness ==
    /\ g_pc = "done"
    /\ ~g_in.strict_quality_check /\ g_in.query = "  "
    /\ g_results = <<>> /\ g_trace = <<"retrieve_chunks">>
    /\ g_out.error = "ValueError" /\ g_out.step = "no_chunks"

(***************************************************************************)
(* chunking.py: normalize_text and the text splitter                       *)
(* NUL stands for the character '\x00', which a string of the model cannot *)
(* hold.                                                                   *)
(***************************************************************************)
NUL == "^"

\* s.replace(old, new) for a single character old
ReplaceChar(s, old, new) ==
    Concat([i \in 1..Len(s) |-> IF CharAt(s, i) = old THEN new ELSE CharAt(s, i)],
           1, Len(s))

\* the number of characters c that end at position i of s without a break
RunLength(s, i, c) ==
    LET breaks == {j \in 1..i : CharAt(s, j) # c}
    IN IF breaks = {} THEN i ELSE i - (CHOOSE j \in breaks : \A l \in breaks : l <= j)

\* s.replace('  ', ' '): the matches are the pairs of a run of spaces, taken
\* from the left, so every second space of a run goes
ReplaceDoubleSpace(s) ==
    Concat([i \in 1..Len(s) |->
               IF CharAt(s, i) = " " /\ RunLength(s, i, " ") % 2 = 0 THEN ""
               ELSE CharAt(s, i)],
           1, Len(s))

\* re.sub(r'\s+', ' ', text): the first character of a whitespace run becomes
\* the space, the others go
CollapseWhitespace(s) ==
    Concat([i \in 1..Len(s) |->
               IF ~IsSpace(CharAt(s, i)) THEN CharAt(s, i)
               ELSE IF i > 1 /\ IsSpace(CharAt(s, i - 1)) THEN "" ELSE " "],
           1, Len(s))

\* faulty variant: the NUL characters stay
normalize_text_keepNul(text) == Strip(CollapseWhitespace(text))

\* text.replace('\x00', ''), re.sub(r'\s+', ' ', text), text.strip()
normalize_text(text) == Strip(CollapseWhitespace(ReplaceChar(text, NUL, "")))

\* the least number of characters a chunk's text has
MinChunkLen == 10

\* not normalized or len(normalized) < 10
TooShort(normalized) == normalized = "" \/ Len(normalized) < MinChunkLen

ParagraphChunkSize == 1000
ProblemChunkSize == 800

\* RecursiveCharacterTextSplitter.split_documents on one document whose text
\* is shorter than chunk_size: the pieces are merged back into the one text,
\* stripped, and an empty result is dropped.  Every text of the model is
\* shorter than the chunk sizes.
split_documents(page_content, metadata, chunk_size) ==
    CASE Len(page_content) < chunk_size ->
        IF Strip(page_content) = "" THEN <<>>
        ELSE <<[page_content |-> Strip(page_content), metadata |-> metadata]>>

Chunk(file_path, source_type, text, locator, chunk_index, heading) ==
    [file_path |-> file_path, source_type |-> source_type, text |-> text,
     locator |-> locator, chunk_index |-> chunk_index,
     char_start |-> Nil, char_end |-> Nil, heading |-> heading]

Metadata(page, slide, section, heading) ==
    [page |-> page, slide |-> slide, section |-> section, heading |-> heading]

RECURSIVE langchain_docs_to_chunks(_, _, _, _)
\* chunk_index_start is the index the next kept chunk gets
langchain_docs_to_chunks(langchain_docs, file_path, source_type, chunk_index_start) ==
    IF langchain_docs = <<>> THEN <<>>
    ELSE LET doc == Head(langchain_docs)
             normalized == normalize_text(doc.page_content)
         IN IF TooShort(normalized)
            THEN langchain_docs_to_chunks(Tail(langchain_docs), file_path, source_type,
                                          chunk_index_start)
            ELSE <<Chunk(file_path, source_type, normalized,
                         Locator(doc.metadata.page, doc.metadata.slide, doc.metadata.section),
                         chunk_index_start, doc.metadata.heading)>>
                 \o langchain_docs_to_chunks(Tail(langchain_docs), file_path, source_type,
                                             chunk_index_start + 1)

chunk_by_paragraphs(text, file_path, source_type, page, section) ==
    langchain_docs_to_chunks(
        split_documents(text, Metadata(page, Nil, section, NONE), ParagraphChunkSize),
        file_path, source_type, 0)

RECURSIVE SlideChunks(_, _, _, _, _, _)
\* the loop of chunk_by_slides from slide idx (0-based), chunks being the list so far
SlideChunks(slides, idx, chunks, file_path, source_type, page) ==
    IF idx >= Len(slides) THEN chunks
    ELSE LET normalized == normalize_text(slides[idx + 1])
         IN SlideChunks(slides, idx + 1,
                IF TooShort(normalized) THEN chunks
                ELSE Append(chunks, Chunk(file_path, source_type, normalized,
                                          Locator(page, Some(idx + 1), NONE),
                                          Len(chunks), NONE)),
                file_path, source_type, page)

RECURSIVE SlideChunks_countKept(_, _, _, _, _, _)
\* faulty variant: the slide number counts the slides kept so far
SlideChunks_countKept(slides, idx, chunks, file_path, source_type, page) ==
    IF idx >= Len(slides) THEN chunks
    ELSE LET normalized == normalize_text(slides[idx + 1])
         IN SlideChunks_countKept(slides, idx + 1,
                IF TooShort(normalized) THEN chunks
                ELSE Append(chunks, Chunk(file_path, source_type, normalized,
                                          Locator(page, Some(Len(chunks) + 1), NONE),
                                          Len(chunks), NONE)),
                file_path, source_type, page)

chunk_by_slides_countKept(slides, file_path, source_type, page) ==
    SlideChunks_countKept(slides, 0, <<>>, file_path, source_type, page)

chunk_by_slides(slides, file_path, source_type, page) ==
    SlideChunks(slides, 0, <<>>, file_path, source_type, page)

RECURSIVE TaggedChunks(_, _, _, _, _, _, _)
\* the inner loop of chunk_by_sections and chunk_problem_set: the pieces of
\* one section or problem, appended to all_chunks
TaggedChunks(docs, all_chunks, file_path, source_type, page, section, heading) ==
    IF docs = <<>> THEN all_chunks
    ELSE LET normalized == normalize_text(Head(docs).page_content)
         IN TaggedChunks(Tail(docs),
                IF TooShort(normalized) THEN all_chunks
                ELSE Append(all_chunks, Chunk(file_path, source_type, normalized,
                                              Locator(page, Nil, section),
                                              Len(all_chunks), heading)),
                file_path, source_type, page, section, heading)

RECURSIVE SectionChunks(_, _, _, _, _)
\* the outer loop of chunk_by_sections; sections lists the map's items in
\* insertion order
SectionChunks(sections, all_chunks, file_path, source_type, page) ==
    IF sections = <<>> THEN all_chunks
    ELSE LET section_name == Head(sections).name
             section_chunks ==
                 split_documents(Head(sections).text,
                                 Metadata(page, Nil, section_name, section_name),
                                 ParagraphChunkSize)
         IN SectionChunks(Tail(sections),
                TaggedChunks(section_chunks, all_chunks, file_path, source_type, page,
                             section_name, section_name),
                file_path, source_type, page)

chunk_by_sections(sections, file_path, source_type, page) ==
    SectionChunks(sections, <<>>, file_path, source_type, page)

(***************************************************************************)
(* chunking.py: chunk_problem_set                                          *)
(* problem_pattern is (?:Problem|Question|Exercise|Part)\s*(\d+)[:.]?\s*\n *)
(* with re.IGNORECASE; positions are 1-based.                              *)
(***************************************************************************)
ProblemKeywords == <<"problem", "question", "exercise", "part">>

IsDigit(c) == \E i \in 1..10 : CharAt(Digits, i) = c

\* str.isdigit()
IsDigits(s) == s # "" /\ \A i \in 1..Len(s) : IsDigit(CharAt(s, i))

RECURSIVE ParseInt(_)
\* int(s) of a string of digits
ParseInt(s) ==
    IF s = "" THEN 0
    ELSE 10 * ParseInt(SubSeq(s, 1, Len(s) - 1))
         + ((CHOOSE i \in 1..10 : CharAt(Digits, i) = CharAt(s, Len(s))) - 1)

RECURSIVE SkipSpaces(_, _)
\* where a greedy \s* from position i stops
SkipSpaces(text, i) ==
    IF i <= Len(text) /\ IsSpace(CharAt(text, i)) THEN SkipSpaces(text, i + 1) ELSE i

RECURSIVE SkipDigits(_, _)
\* where a greedy \d* from position i stops
SkipDigits(text, i) ==
    IF i <= Len(text) /\ IsDigit(CharAt(text, i)) THEN SkipDigits(text, i + 1) ELSE i

\* the length of the keyword that starts at position i, or 0
KeywordAt(text, i) ==
    LET fits == {k \in 1..Len(ProblemKeywords) :
                    /\ i + Len(ProblemKeywords[k]) - 1 <= Len(text)
                    /\ Lower(SubSeq(text, i, i + Len(ProblemKeywords[k]) - 1))
                          = ProblemKeywords[k]}
    IN IF fits = {} THEN 0 ELSE Len(ProblemKeywords[CHOOSE k \in fits : TRUE])

\* problem_pattern.match(text, i): the captured number and where the match
\* ends; the closing \s*\n ends at the last newline of the whitespace run
MarkerAt(text, i) ==
    LET k == KeywordAt(text, i)
        digits_from == SkipSpaces(text, i + k)
        digits_to == SkipDigits(text, digits_from)
        after_punct == IF digits_to <= Len(text) /\ CharAt(text, digits_to) \in {":", "."}
                       THEN digits_to + 1 ELSE digits_to
        run_to == SkipSpaces(text, after_punct)
        newlines == {j \in after_punct..(run_to - 1) : CharAt(text, j) = "\n"}
    IN IF k = 0 \/ digits_to = digits_from \/ newlines = {}
       THEN [found |-> FALSE, number |-> "", end |-> i]
       ELSE [found |-> TRUE, number |-> SubSeq(text, digits_from, digits_to - 1),
             end |-> (CHOOSE j \in newlines : \A l \in newlines : l <= j) + 1]

RECURSIVE PatternSplit(_, _)
\* problem_pattern.split(text), from position start on: the text before the
\* leftmost match, its number, and the split of the rest
PatternSplit(text, start) ==
    LET matches == {i \in start..Len(text) : MarkerAt(text, i).found}
    IN IF matches = {} THEN <<SubSeq(text, start, Len(text))>>
       ELSE LET i == CHOOSE j \in matches : \A l \in matches : j <= l
                m == MarkerAt(text, i)
            IN <<SubSeq(text, start, i - 1), m.number>> \o PatternSplit(text, m.end)

\* problems.append(...) when a problem is open and has text
SaveProblem(problems, current_problem_num, current_text) ==
    IF current_problem_num # Nil /\ current_text # <<>>
    THEN Append(problems, [number |-> current_problem_num[1],
                           text |-> Join(current_text, "\n")])
    ELSE problems

RECURSIVE CollectProblems(_, _, _, _, _)
\* the loop over parts from index i (0-based), and the save after it
CollectProblems(parts, i, current_problem_num, current_text, problems) ==
    IF i >= Len(parts) THEN SaveProblem(problems, current_problem_num, current_text)
    ELSE IF i % 2 = 1 /\ IsDigits(parts[i + 1])
         THEN CollectProblems(parts, i + 1, Some(ParseInt(parts[i + 1])), <<>>,
                              SaveProblem(problems, current_problem_num, current_text))
         ELSE CollectProblems(parts, i + 1, current_problem_num,
                              Append(current_text, Strip(parts[i + 1])), problems)

\* faulty variant: the tag is one off
ProblemTag_plusOne(problem_num) == "Problem " \o IntStr(problem_num + 1)

\* f"Problem {problem_num}"
ProblemTag(problem_num) == "Problem " \o IntStr(problem_num)

RECURSIVE ProblemChunks(_, _, _, _, _)
\* the loop over problems
ProblemChunks(problems, all_chunks, file_path, source_type, page) ==
    IF problems = <<>> THEN all_chunks
    ELSE LET tag == ProblemTag(Head(problems).number)
             problem_chunks == split_documents(Head(problems).text,
                                               Metadata(page, Nil, tag, tag),
                                               ProblemChunkSize)
         IN ProblemChunks(Tail(problems),
                TaggedChunks(problem_chunks, all_chunks, file_path, source_type, page,
                             tag, tag),
                file_path, source_type, page)

chunk_problem_set(text, file_path, source_type, page) ==
    LET parts == PatternSplit(text, 1)
        problems == CollectProblems(parts, 0, Nil, <<>>, <<>>)
    IN IF problems # <<>>
       THEN ProblemChunks(problems, <<>>, file_path, source_type, page)
       ELSE chunk_by_paragraphs(text, file_path, source_type, page, NONE)

(***************************************************************************)
(* chunking.py: chunk_by_source_type                                       *)
(* slides and sections are <<>> when None or empty (both are false).       *)
(***************************************************************************)
\* faulty variant: course notes never take the section split
Strategy_notesNeverSections(source_type, slides, sections) ==
    CASE source_type = "lecture_slides" ->
            IF slides # <<>> THEN "chunk_by_slides" ELSE "chunk_by_paragraphs"
      [] source_type \in {"practice_problems", "exam", "assignment"} -> "chunk_problem_set"
      [] OTHER -> "chunk_by_paragraphs"

\* the strategy chunk_by_source_type calls
Strategy(source_type, slides, sections) ==
    CASE source_type = "lecture_slides" ->
            IF slides # <<>> THEN "chunk_by_slides" ELSE "chunk_by_paragraphs"
      [] source_type \in {"practice_problems", "exam", "assignment"} -> "chunk_problem_set"
      [] source_type = "course_notes" ->
            IF sections # <<>> THEN "chunk_by_sections" ELSE "chunk_by_paragraphs"
      [] source_type \in {"student_notes", "syllabus", "solution"} -> "chunk_by_paragraphs"
      [] OTHER -> "chunk_by_paragraphs"

chunk_by_source_type(text, file_path, source_type, page, slides, sections) ==
    LET called == Strategy(source_type, slides, sections)
    IN CASE called = "chunk_by_slides" -> chunk_by_slides(slides, file_path, source_type, page)
         [] called = "chunk_problem_set" -> chunk_problem_set(text, file_path, source_type, page)
         [] called = "chunk_by_sections" ->
                chunk_by_sections(sections, file_path, source_type, page)
         [] called = "chunk_by_paragraphs" ->
                chunk_by_paragraphs(text, file_path, source_type, page, NONE)

(***************************************************************************)
(* ingest.py: _deduplicate_chunks                                          *)
(***************************************************************************)
\* chunk.text.strip().replace('\n', ' ').replace('  ', ' ')
DedupKey(text) == ReplaceDoubleSpace(ReplaceChar(Strip(text), "\n", " "))

RECURSIVE UniqueChunks(_, _, _)
\* the first loop: seen_texts and unique_chunks so far
UniqueChunks(chunks, seen_texts, unique_chunks) ==
    IF chunks = <<>> THEN unique_chunks
    ELSE LET normalized == DedupKey(Head(chunks).text)
         IN IF normalized \in seen_texts
            THEN UniqueChunks(Tail(chunks), seen_texts, unique_chunks)
            ELSE UniqueChunks(Tail(chunks), seen_texts \cup {normalized},
                              Append(unique_chunks, Head(chunks)))

\* faulty variant: the survivors keep their old chunk_index
deduplicate_chunks_noReindex(chunks) == UniqueChunks(chunks, {}, <<>>)

deduplicate_chunks(chunks) ==
    LET unique_chunks == UniqueChunks(chunks, {}, <<>>)
    IN [idx \in 1..Len(unique_chunks) |->
            [unique_chunks[idx] EXCEPT !.chunk_index = idx - 1]]

(***************************************************************************)
(* Chunking one document: chunk_by_source_type, then _deduplicate_chunks   *)
(* A document is an optional preamble and up to MaxProblems blocks, block  *)
(* k being a heading line numbered k and a body; norm is the body as it    *)
(* reads once normalized, and has_marker tells that the body, once a       *)
(* newline follows it, holds a further match of the problem pattern.       *)
(***************************************************************************)
MaxProblems == 2

Block(kind, body, norm, has_marker) ==
    [kind |-> kind, body |-> body, norm |-> norm, has_marker |-> has_marker]

Blocks ==
    {Block("problem", "Foo", "Foo", FALSE),
     Block("problem", "Bar", "Bar", FALSE),
     Block("problem", "Compute  2+2\nnow.^", "Compute 2+2 now.", FALSE),
     Block("problem", "Solve it\tas in part 2", "Solve it as in part 2", TRUE),
     Block("question", "Prove it for all n.", "Prove it for all n.", FALSE),
     Block("inline", "State the theorem.", "State the theorem.", FALSE)}

Preambles == {"", "Midterm review sheet\n"}

\* the heading line of block number n
MarkerLine(kind, n) ==
    CASE kind = "problem" -> "Problem " \o IntStr(n) \o ":\n"
      [] kind = "question" -> "question" \o IntStr(n) \o ". \n\n"
      [] kind = "inline" -> "Problem " \o IntStr(n) \o ": "

DocText(doc) ==
    doc.preamble
    \o Join([k \in 1..Len(doc.blocks) |->
                MarkerLine(doc.blocks[k].kind, k) \o doc.blocks[k].body], "\n")

Docs == [preamble : Preambles, blocks : SeqsUpTo(Blocks, MaxProblems)]

SlideLists ==
    {<<>>,
     <<"Intro to graphs", "Shortest paths\n\nDijkstra", "ab", "Intro  to\tgraphs^",
       "Minimum spanning trees">>}

SectionMaps ==
    {<<>>,
     <<[name |-> "1 Basics", text |-> "Graphs have nodes.\n\nAnd edges too."],
       [name |-> "2 Todo", text |-> " \n"],
       [name |-> "3 Recap", text |-> "Graphs  have nodes. And\nedges too. "]>>}

ChunkFile == [dirs |-> <<"data", "raw", "CS479", "exams">>, name |-> "sheet.pdf"]

InitChunk ==
    /\ k_pc = "call"
    /\ \E doc \in Docs, source_type \in SourceType, slides \in SlideLists,
          sections \in SectionMaps :
          k_in = [doc |-> doc, text |-> DocText(doc), file_path |-> ChunkFile,
                  source_type |-> source_type, page |-> Nil,
                  slides |-> slides, sections |-> sections]
    /\ k_called = NONE /\ k_chunks = <<>> /\ k_unique = <<>>
    /\ v_pc = "idle" /\ v_in = NONE /\ v_out = NONE
    /\ q_pc = "idle" /\ q_in = NONE /\ q_out = NONE
    /\ c_pc = "idle" /\ c_in = NONE /\ c_out = NONE
    /\ g_pc = "idle" /\ g_in = NONE /\ g_results = NONE /\ g_quality = NONE
    /\ g_llm = NONE /\ g_out = NONE /\ g_trace = NONE
    /\ i_pc = "idle" /\ i_in = NONE /\ i_source_type = NONE /\ i_parsed = NONE
    /\ i_chunks = NONE /\ i_method = NONE /\ i_out = NONE /\ i_trace = NONE
    /\ r_pc = "idle" /\ r_in = NONE /\ r_store = NONE /\ r_out = NONE /\ r_direct = NONE
    /\ b_pc = "idle" /\ b_in = NONE /\ b_files = NONE /\ b_idx = NONE /\ b_results = NONE /\ b_failed = NONE /\ b_last = NONE /\ b_out = NONE
    /\ s_pc = "idle" /\ s_in = NONE /\ s_db = NONE /\ s_clock = NONE /\ s_sess = NONE /\ s_loaded = NONE /\ s_new = NONE /\ s_out = NONE
    /\ l_pc = "idle" /\ l_loc = NONE /\ l_out = NONE
    /\ d_pc = "idle" /\ d_out = NONE
    /\ e_embedding = NONE /\ e_llm = NONE /\ e_calls = NONE

others_chunk == <<vars_validate, vars_quality, vars_citations, vars_generate, vars_ingest,
      vars_retrieve, vars_course, vars_store, vars_locator, vars_delete, vars_services>>

\* chunk_by_source_type(text, file_path, source_type, page, slides, sections)
ChunkCall ==
    /\ k_pc = "call"
    /\ k_called' = Strategy(k_in.source_type, k_in.slides, k_in.sections)
    /\ k_chunks' = chunk_by_source_type(k_in.text, k_in.file_path, k_in.source_type,
                                        k_in.page, k_in.slides, k_in.sections)
    /\ k_pc' = "chunked"
    /\ UNCHANGED <<k_in, k_unique, others_chunk>>

\* _deduplicate_chunks(chunks)
DeduplicateCall ==
    /\ k_pc = "chunked"
    /\ k_unique' = deduplicate_chunks(k_chunks)
    /\ k_pc' = "done"
    /\ UNCHANGED <<k_in, k_called, k_chunks, others_chunk>>

SpecChunk == InitChunk /\ [][ChunkCall \/ DeduplicateCall]_vars

\* the positions of chunks that hold the first occurrence of their text
FirstOccurrences(chunks) ==
    {i \in 1..Len(chunks) : \A j \in 1..(i - 1) : chunks[j].text # chunks[i].text}

\* C7: deduplication keeps exactly the first occurrence of each distinct chunk
\* text, in the original relative order, and numbers the survivors 0..n-1:
\* the n-th survivor is the chunk at the n-th first-occurrence position, with
\* chunk_index n-1 and nothing else changed.
C7_DedupFirstOccurrence ==
    k_pc = "done" =>
        LET first == FirstOccurrences(k_chunks)
        IN /\ Len(k_unique) = Cardinality(first)
           /\ \A i \in first :
                 LET n == Cardinality({j \in first : j <= i})
                 IN k_unique[n] = [k_chunks[i] EXCEPT !.chunk_index = n - 1]

\* C7 witness: four slide chunks, the third repeating the text of the first,
\* leave three survivors, the last one renumbered from 3 to 2.
C7_Witness ==
    /\ k_pc = "done"
    /\ Len(k_chunks) = 4 /\ k_chunks[3].text = k_chunks[1].text
    /\ k_chunks[4].chunk_index = 3
    /\ Len(k_unique) = 3
    /\ k_unique[3].text = "Minimum spanning trees" /\ k_unique[3].chunk_index = 2

\* the categories that chunk_by_source_type hands to the problem-set split
ProblemCategories == {"practice_problems", "exam", "assignment"}

\* a text made only of marker lines 'Problem n:', each ended by a newline and
\* followed by its problem's body, no body holding a further marker
ProblemDoc(doc) ==
    /\ doc.preamble = ""
    /\ doc.blocks # <<>>
    /\ \A k \in 1..Len(doc.blocks) :
          doc.blocks[k].kind = "problem" /\ ~doc.blocks[k].has_marker

\* the positions of the chunks tagged 'Problem n' in heading and section
TaggedProblem(chunks, n) ==
    {i \in 1..Len(chunks) :
        /\ chunks[i].heading = "Problem " \o IntStr(n)
        /\ chunks[i].locator.section = "Problem " \o IntStr(n)}

IsNormalized(text) ==
    /\ \A i \in 1..Len(text) :
          /\ CharAt(text, i) # NUL
          /\ CharAt(text, i) \notin (Whitespace \ {" "})
          /\ (i < Len(text) => ~(CharAt(text, i) = " " /\ CharAt(text, i + 1) = " "))
    /\ text # "" => (CharAt(text, 1) # " " /\ CharAt(text, Len(text)) # " ")

\* C9: every chunk chunk_by_source_type returns, for every category and
\* input, has normalized text (no NUL, no whitespace run, newline or tab, no
\* leading or trailing whitespace) of at least 10 characters.
C9_ChunksNormalized ==
    k_pc # "call" =>
        \A i \in 1..Len(k_chunks) :
            IsNormalized(k_chunks[i].text) /\ Len(k_chunks[i].text) >= 10

\* C9 witness: of five slides, the two-letter one is dropped and the one with
\* a tab, a double space and a NUL comes out as "Intro to graphs".
C9_Witness ==
    /\ k_pc = "chunked" /\ k_called = "chunk_by_slides"
    /\ Len(k_in.slides) = 5 /\ k_in.slides[4] = "Intro  to\tgraphs^"
    /\ Len(k_chunks) = 4
    /\ k_chunks[3].text = "Intro to graphs" /\ k_chunks[3].locator.slide = Some(4)

\* C10: the strategy depends only on the category and on whether slides or
\* sections were supplied: lecture_slides takes one chunk per slide when slides
\* are supplied and the paragraph split otherwise; practice_problems, exam and
\* assignment take the problem-set split; course_notes takes the section split
\* when sections are supplied and the paragraph split otherwise; student_notes,
\* syllabus and solution take the paragraph split.
C10_Dispatch ==
    k_pc # "call" =>
        /\ k_in.source_type = "lecture_slides" =>
              k_called = (IF k_in.slides # <<>> THEN "chunk_by_slides"
                          ELSE "chunk_by_paragraphs")
        /\ k_in.source_type \in {"practice_problems", "exam", "assignment"} =>
              k_called = "chunk_problem_set"
        /\ k_in.source_type = "course_notes" =>
              k_called = (IF k_in.sections # <<>> THEN "chunk_by_sections"
                          ELSE "chunk_by_paragraphs")
        /\ k_in.source_type \in {"student_notes", "syllabus", "solution"} =>
              k_called = "chunk_by_paragraphs"
        /\ k_called = "chunk_by_slides" =>
              \A i \in 1..Len(k_chunks) : k_chunks[i].locator.slide # Nil
        /\ k_called = "chunk_by_sections" =>
              \A i \in 1..Len(k_chunks) :
                  \E j \in 1..Len(k_in.sections) :
                      k_chunks[i].locator.section = k_in.sections[j].name
        /\ k_called = "chunk_by_paragraphs" =>
              \A i \in 1..Len(k_chunks) :
                  /\ k_chunks[i].locator.slide = Nil
                  /\ k_chunks[i].locator.section = NONE

\* C10 witness: course notes that come with both slides and sections were
\* split by section.
C10_Witness ==
    /\ k_pc = "chunked" /\ k_in.source_type = "course_notes"
    /\ k_in.slides # <<>> /\ k_in.sections # <<>>
    /\ k_called = "chunk_by_sections"
    /\ Len(k_chunks) = 2 /\ k_chunks[2].locator.section = "3 Recap"

(***************************************************************************)
(* parsing.py: parse_file, and ingest.py: ingest_file                      *)
(* The parsed content is [text, pages, slides, sections]; a list or map    *)
(* that is None is <<>>, as every use of it tests its truth only.          *)
(***************************************************************************)
\* text.split('\n')
SplitLines(text) ==
    LET newlines == {i \in 1..Len(text) : CharAt(text, i) = "\n"}
        n == Cardinality(newlines)
        pos(k) == IF k = 0 THEN 0
                  ELSE IF k = n + 1 THEN Len(text) + 1
                  ELSE CHOOSE i \in newlines : Cardinality({j \in newlines : j <= i}) = k
    IN [k \in 1..(n + 1) |-> SubSeq(text, pos(k - 1) + 1, pos(k) - 1)]

RECURSIVE PdfLines(_)
\* the loop of the .pdf branch: every line of every page, with the page's number
PdfLines(documents) ==
    IF documents = <<>> THEN <<>>
    ELSE LET lines == SplitLines(Head(documents).page_content)
         IN [k \in 1..Len(lines) |-> [line |-> lines[k], page |-> Head(documents).page]]
            \o PdfLines(Tail(documents))

\* section_dict[key] = value: a new key goes last, a known key keeps its place
DictSet(section_dict, key, value) ==
    IF \E k \in 1..Len(section_dict) : section_dict[k].name = key
    THEN [k \in 1..Len(section_dict) |->
             IF section_dict[k].name = key THEN [name |-> key, text |-> value]
             ELSE section_dict[k]]
    ELSE Append(section_dict, [name |-> key, text |-> value])

\* if current_section and current_section_text: section_dict[current_section] = ...
SaveSection(section_dict, current_section, current_section_text) ==
    IF TruthyStr(current_section) /\ current_section_text # <<>>
    THEN DictSet(section_dict, current_section, Join(current_section_text, "\n"))
    ELSE section_dict

RECURSIVE DocxSections(_, _, _, _)
\* the loop of the .docx branch and the save after it; a document's heading
\* is NONE when its metadata has neither a heading nor a category
DocxSections(documents, current_section, current_section_text, section_dict) ==
    IF documents = <<>>
    THEN SaveSection(section_dict, current_section, current_section_text)
    ELSE LET doc == Head(documents)
         IN IF doc.heading # NONE
            THEN DocxSections(Tail(documents), doc.heading,
                     Append(IF TruthyStr(current_section) /\ current_section_text # <<>>
                            THEN <<>> ELSE current_section_text,
                            doc.page_content),
                     SaveSection(section_dict, current_section, current_section_text))
            ELSE DocxSections(Tail(documents), current_section,
                     IF TruthyStr(current_section)
                     THEN Append(current_section_text, doc.page_content)
                     ELSE current_section_text,
                     section_dict)

\* the texts of the documents the loader read
Contents(documents) == [k \in 1..Len(documents) |-> documents[k].page_content]

\* what parse_file returns for the documents the loader read
parse_file(suffix, documents) ==
    CASE suffix \in {".md", ".txt"} ->
            [text |-> Join(Contents(documents), "\n\n"),
             pages |-> <<>>, slides |-> <<>>, sections |-> <<>>]
      [] suffix = ".pdf" ->
            LET lines == PdfLines(documents)
            IN [text |-> Join([k \in 1..Len(lines) |-> lines[k].line], "\n"),
                pages |-> [k \in 1..Len(lines) |-> lines[k].page],
                slides |-> <<>>, sections |-> <<>>]
      [] suffix = ".pptx" ->
            [text |-> Join(Contents(documents), "\n\n"), pages |-> <<>>,
             slides |-> Contents(documents), sections |-> <<>>]
      [] suffix = ".docx" ->
            [text |-> Join(Contents(documents), "\n\n"), pages |-> <<>>, slides |-> <<>>,
             sections |-> DocxSections(documents, NONE, <<>>, <<>>)]

\* ingest.py: _get_chunking_method
get_chunking_method(source_type, parsed_content) ==
    CASE source_type = "lecture_slides" ->
            IF parsed_content.slides # <<>> THEN "by_slides" ELSE "by_paragraphs (fallback)"
      [] source_type \in {"practice_problems", "exam", "assignment"} -> "by_problems"
      [] source_type = "course_notes" ->
            IF parsed_content.sections # <<>> THEN "by_sections" ELSE "by_paragraphs"
      [] source_type \in {"student_notes", "syllabus", "solution"} -> "by_paragraphs"
      [] OTHER -> "by_paragraphs (default)"

\* haystack.find(needle): the 0-based offset of the first occurrence, or -1
Find(haystack, needle) ==
    LET hits == {i \in 1..(Len(haystack) - Len(needle) + 1) :
                    SubSeq(haystack, i, i + Len(needle) - 1) = needle}
    IN IF hits = {} THEN -1 ELSE (CHOOSE i \in hits : \A j \in hits : i <= j) - 1

SearchKeyLen == 50

\* s[:50] if len(s) >= 50 else s
SearchKey(s) == IF Len(s) >= SearchKeyLen THEN SubSeq(s, 1, SearchKeyLen) ELSE s

\* the offset at which the chunk's text is found, exactly or after
\* normalizing both texts, or -1
LocateChunk(chunk_text, original_text) ==
    LET char_start == Find(original_text, SearchKey(chunk_text))
    IN IF char_start # -1 THEN char_start
       ELSE Find(ReplaceDoubleSpace(ReplaceChar(original_text, "\n", " ")),
                 SearchKey(ReplaceDoubleSpace(ReplaceChar(chunk_text, "\n", " "))))

\* faulty variant: an offset at the first character of a line is not taken
\* to lie in that line
LineOf_afterFirst(lines, char_start) ==
    LET line_start(i) == IF i = 0 THEN 0
                         ELSE Len(Join(SubSeq(lines, 1, i), "\n")) + 1
        holds == {i \in 0..(Len(lines) - 1) :
                     /\ line_start(i) < char_start
                     /\ char_start < line_start(i) + Len(lines[i + 1]) + 1}
    IN IF holds = {} THEN -1 ELSE CHOOSE i \in holds : \A j \in holds : i <= j

\* the 0-based index of the line that holds offset char_start, or -1
LineOf(lines, char_start) ==
    LET line_start(i) == IF i = 0 THEN 0
                         ELSE Len(Join(SubSeq(lines, 1, i), "\n")) + 1
        holds == {i \in 0..(Len(lines) - 1) :
                     /\ line_start(i) <= char_start
                     /\ char_start < line_start(i) + Len(lines[i + 1]) + 1}
    IN IF holds = {} THEN -1 ELSE CHOOSE i \in holds : \A j \in holds : i <= j

\* chunk.locator.page = pages[i] if i < len(pages) and pages[i] is not None,
\* for the line i that holds the chunk's start (-1: no line does)
BackfillPage(chunk, i, pages) ==
    IF i # -1 /\ i < Len(pages) /\ pages[i + 1] # Nil THEN pages[i + 1]
    ELSE chunk.locator.page

\* the loop body once char_start is known; -1 is the 'continue'
BackfillAt(chunk, char_start, original_text, pages) ==
    IF char_start = -1 THEN chunk
    ELSE [chunk EXCEPT
             !.locator.page =
                 BackfillPage(chunk, LineOf(SplitLines(original_text), char_start), pages),
             !.char_start = Some(char_start),
             !.char_end = Some(char_start + Len(chunk.text))]

\* the body of the loop 'for chunk in chunks' of ingest_file
BackfillChunk(chunk, original_text, pages) ==
    BackfillAt(chunk, LocateChunk(chunk.text, original_text), original_text, pages)

\* if pages and chunks: ...
Backfill(chunks, original_text, pages) ==
    IF pages # <<>> /\ chunks # <<>>
    THEN [k \in 1..Len(chunks) |-> BackfillChunk(chunks[k], original_text, pages)]
    ELSE chunks

(***************************************************************************)
(* ingest.py: ingest_file, one call                                        *)
(***************************************************************************)
Doc(page_content, page, heading) ==
    [page_content |-> page_content, page |-> page, heading |-> heading]

\* what the loader may read from a file of the given suffix
LoadedDocuments(suffix) ==
    CASE suffix \in {".md", ".txt"} ->
            {<<Doc("Graphs have nodes.\n\nAnd edges too.", Nil, NONE)>>,
             <<Doc("Problem 1:\nFoo\nProblem 2:\nBar", Nil, NONE)>>}
      [] suffix = ".pdf" ->
            {<<Doc("Problem 1:\nCompute 2+2 now.\nThen explain it.", Some(0), NONE),
               Doc("Problem 2:\nProve it for all n.", Some(1), NONE)>>,
             <<Doc("Graphs  have nodes.\nAnd edges too.", Nil, NONE)>>,
             <<Doc("Trees are graphs.\n", Some(0), NONE),
               Doc("Graphs  have\nnodes and edges.\n\nA\ttab here now.", Some(1), NONE)>>,
             <<Doc("Problem 1:\n\nCompute  2+2\nnow ok.", Some(0), NONE),
               Doc("Problem 2:\nProve it for all n.", Some(1), NONE)>>}
      [] suffix = ".pptx" ->
            {<<>>,
             <<Doc("Intro to graphs", Nil, NONE), Doc("ab", Nil, NONE),
               Doc("Intro  to\tgraphs^", Nil, NONE)>>}
      [] suffix = ".docx" ->
            {<<Doc("Course notes", Nil, NONE), Doc("Graphs have nodes.", Nil, "1 Basics"),
               Doc("And edges too.", Nil, NONE), Doc("Trees are graphs.", Nil, "2 Trees")>>,
             <<Doc("Graphs have nodes. And edges too.", Nil, NONE)>>}
      [] OTHER -> {<<>>}

IngestPaths ==
    {[dirs |-> <<"data", "raw", "CS479", d>>, name |-> n] :
        d \in {"lectures", "exams", "course_notes", "misc"},
        n \in {"week1.md", "deck.pptx", "exam.PDF", "sheet.docx", "tool.py"}}

InitIngest ==
    /\ i_pc = "validate"
    /\ i_in \in [file_path : IngestPaths,
                 course_root : {Nil, Some(<<"data", "raw", "CS479">>)},
                 source_type : {NONE, "lecture_slides", "exam", "course_notes"}]
    /\ i_source_type = NONE /\ i_parsed = NONE /\ i_chunks = <<>> /\ i_method = NONE
    /\ i_out = NONE /\ i_trace = <<>>
    /\ v_pc = "idle" /\ v_in = NONE /\ v_out = NONE
    /\ q_pc = "idle" /\ q_in = NONE /\ q_out = NONE
    /\ c_pc = "idle" /\ c_in = NONE /\ c_out = NONE
    /\ k_pc = "idle" /\ k_in = NONE /\ k_called = NONE /\ k_chunks = NONE /\ k_unique = NONE
    /\ g_pc = "idle" /\ g_in = NONE /\ g_results = NONE /\ g_quality = NONE
    /\ g_llm = NONE /\ g_out = NONE /\ g_trace = NONE
    /\ r_pc = "idle" /\ r_in = NONE /\ r_store = NONE /\ r_out = NONE /\ r_direct = NONE
    /\ b_pc = "idle" /\ b_in = NONE /\ b_files = NONE /\ b_idx = NONE /\ b_results = NONE /\ b_failed = NONE /\ b_last = NONE /\ b_out = NONE
    /\ s_pc = "idle" /\ s_in = NONE /\ s_db = NONE /\ s_clock = NONE /\ s_sess = NONE /\ s_loaded = NONE /\ s_new = NONE /\ s_out = NONE
    /\ l_pc = "idle" /\ l_loc = NONE /\ l_out = NONE
    /\ d_pc = "idle" /\ d_out = NONE
    /\ e_embedding = NONE /\ e_llm = NONE /\ e_calls = NONE

others_ingest == <<vars_validate, vars_quality, vars_citations, vars_chunk, vars_generate,
      vars_retrieve, vars_course, vars_store, vars_locator, vars_delete, vars_services>>

\* faulty variant: a file that fails validation is parsed and chunked as
\* course notes all the same
IngestValidate_failOpen ==
    /\ i_pc = "validate"
    /\ LET validated == validate_file_for_ingestion(i_in.file_path, i_in.course_root,
                                                      i_in.source_type)
       IN i_source_type' = IF validated.ok THEN validated.value ELSE "course_notes"
    /\ i_out' = i_out /\ i_pc' = "parse"
    /\ i_trace' = Append(i_trace, "validate_file_for_ingestion")
    /\ UNCHANGED <<i_in, i_parsed, i_chunks, i_method, others_ingest>>

\* validated_source_type = validate_file_for_ingestion(...): a validation
\* error leaves ingest_file
IngestValidate ==
    /\ i_pc = "validate"
    /\ LET validated == validate_file_for_ingestion(i_in.file_path, i_in.course_root,
                                                      i_in.source_type)
       IN IF validated.ok
          THEN i_source_type' = validated.value /\ i_out' = i_out /\ i_pc' = "parse"
          ELSE i_source_type' = i_source_type /\ i_out' = validated /\ i_pc' = "done"
    /\ i_trace' = Append(i_trace, "validate_file_for_ingestion")
    /\ UNCHANGED <<i_in, i_parsed, i_chunks, i_method, others_ingest>>

\* parse_file raises (the file is missing or the loader fails): ValueError
IngestParseRaises ==
    /\ i_pc = "parse"
    /\ i_out' = Raise("ValueError", "parse")
    /\ i_trace' = Append(i_trace, "parse_file")
    /\ i_pc' = "done"
    /\ UNCHANGED <<i_in, i_source_type, i_parsed, i_chunks, i_method, others_ingest>>

\* parsed_content = parse_file(file_path)
IngestParse ==
    /\ i_pc = "parse"
    /\ \E documents \in LoadedDocuments(get_file_extension(i_in.file_path)) :
          i_parsed' = parse_file(get_file_extension(i_in.file_path), documents)
    /\ i_trace' = Append(i_trace, "parse_file")
    /\ i_pc' = "chunk"
    /\ UNCHANGED <<i_in, i_source_type, i_chunks, i_method, i_out, others_ingest>>

\* chunk, name the method, deduplicate, backfill the locators, save, return
IngestChunk ==
    /\ i_pc = "chunk"
    /\ i_chunks' = Backfill(
                      deduplicate_chunks(
                          chunk_by_source_type(i_parsed.text, i_in.file_path, i_source_type,
                                               Nil, i_parsed.slides, i_parsed.sections)),
                      i_parsed.text, i_parsed.pages)
    /\ i_method' = get_chunking_method(i_source_type, i_parsed)
    /\ i_trace' = i_trace \o <<"chunk_by_source_type", "_deduplicate_chunks">>
                         \o (IF i_chunks' # <<>> THEN <<"_save_chunks_to_files">> ELSE <<>>)
    /\ i_out' = Ok([file_path |-> i_in.file_path, source_type |-> i_source_type,
                    status |-> "chunked", chunks |-> i_chunks',
                    chunk_count |-> Len(i_chunks'),
                    chunking_method |-> i_method'])
    /\ i_pc' = "done"
    /\ UNCHANGED <<i_in, i_source_type, i_parsed, others_ingest>>

NextIngest == IngestValidate \/ IngestParseRaises \/ IngestParse \/ IngestChunk

SpecIngest == InitIngest /\ [][NextIngest]_vars

\* C6: ingesting a .md file that lies directly in lectures/, with no explicit
\* category, ends with the validation error of the format/category check
\* (the directory gives lecture_slides, which does not admit .md), and the
\* file is neither parsed nor chunked.
C6_MarkdownUnderLectures ==
    (/\ i_pc # "validate"
     /\ i_in.source_type = NONE
     /\ Suffix(i_in.file_path.name) = ".md"
     /\ i_in.file_path.dirs[Len(i_in.file_path.dirs)] = "lectures") =>
        /\ i_pc = "done"
        /\ ~i_out.ok
        /\ i_out.error = "IngestionValidationError" /\ i_out.step = "mapping"
        /\ infer_source_type_from_path(i_in.file_path, i_in.course_root) = Ok("lecture_slides")
        /\ "lecture_slides" \notin FORMAT_TO_SOURCE_TYPE(".md")
        /\ i_trace = <<"validate_file_for_ingestion">>
        /\ i_chunks = <<>>

\* C6 witness: lectures/week1.md, ingested without a category, was refused by
\* the format/category check.
C6_Witness ==
    /\ i_pc = "done"
    /\ i_in.source_type = NONE
    /\ i_in.file_path.name = "week1.md"
    /\ i_in.file_path.dirs = <<"data", "raw", "CS479", "lectures">>
    /\ i_out.error = "IngestionValidationError" /\ i_out.step = "mapping"

\* the validation ingest_file performs on its arguments
IngestValidation ==
    validate_file_for_ingestion(i_in.file_path, i_in.course_root, i_in.source_type)

\* C14: in every state of a call of ingest_file, parse_file has been invoked
\* only after validate_file_for_ingestion, and only if validation succeeded;
\* once validation has failed, the call is over with the validation error
\* and nothing but the validation has run: no parsing, no chunking, no
\* deduplication, no chunk file written, no chunk produced.
C14_FailClosed ==
    /\ \A n \in 1..Len(i_trace) :
           i_trace[n] = "parse_file" =>
               /\ n > 1
               /\ i_trace[1] = "validate_file_for_ingestion"
               /\ IngestValidation.ok
    /\ (i_pc # "validate" /\ ~IngestValidation.ok) =>
           /\ i_pc = "done"
           /\ i_out = IngestValidation
           /\ i_out.error = "IngestionValidationError"
           /\ i_trace = <<"validate_file_for_ingestion">>
           /\ i_chunks = <<>>

\* C14 witness: a file of a format that is not allowed (tool.py) was refused
\* by the first validation step, and only the validation has run.
C14_Witness ==
    /\ i_pc = "done"
    /\ i_in.file_path.name = "tool.py"
    /\ ~i_out.ok /\ i_out.step = "format"
    /\ i_trace = <<"validate_file_for_ingestion">>

(***************************************************************************)
(* Vector retrieval: rag/retrieve.py, rag/vector_store.py                  *)
(*                                                                         *)
(* A row of the chunks table carries whether it has an embedding and, for  *)
(* the one query of a run, its similarity (1 - cosine distance, in         *)
(* hundredths) to the query's embedding.  An empty list of source types    *)
(* stands for both None and [] (Python treats both as false).              *)
(***************************************************************************)
\* str(file_path): the stored form of a chunk's path
PathStr(file_path) == Join(file_path.dirs \o <<file_path.name>>, "/")

ChunkRow(id, course, dir, name, source_type, has_embedding, similarity) ==
    [id |-> id,
     file_path |-> [dirs |-> <<"data", "raw", course, dir>>, name |-> name],
     source_type |-> source_type,
     has_embedding |-> has_embedding,
     similarity |-> similarity]

\* the names query_similar accepts in a call
query_similar_parameters == {"query_text", "limit", "source_types", "min_similarity"}

Take(seq, n) == SubSeq(seq, 1, IF n < Len(seq) THEN n ELSE Len(seq))

RECURSIVE OrderByDistance(_)
\* ORDER BY cosine distance: most similar first
OrderByDistance(rows) ==
    IF rows = {} THEN <<>>
    ELSE LET first == CHOOSE r \in rows : \A o \in rows : o.similarity <= r.similarity
         IN <<first>> \o OrderByDistance(rows \ {first})

\* list.sort(key = similarity, reverse = True) of an already ordered list
SortBySimilarity(rows) == OrderByDistance({rows[i] : i \in 1..Len(rows)})

query_similar(store, embedding_ok, limit, source_types, min_similarity) ==
    IF ~embedding_ok THEN <<>>
    ELSE LET candidates ==
                 {row \in store :
                     /\ row.has_embedding
                     /\ (source_types # <<>> =>
                            \E i \in 1..Len(source_types) : row.source_type = source_types[i])}
             results == Take(OrderByDistance(candidates), limit * 2)
             results_with_scores ==
                 SelectSeq(results, LAMBDA row : row.has_embedding /\ row.similarity >= min_similarity)
         IN Take(SortBySimilarity(results_with_scores), limit)

\* the keyword arguments of the call of query_similar in retrieve_chunks
retrieve_call_keywords ==
    {"query_text", "limit", "source_types", "min_similarity", "file_path_filter"}

file_path_filter(course_code) ==
    IF TruthyStr(course_code) THEN "%/raw/" \o course_code \o "/%" ELSE NONE

RetrievalResult(row) ==
    [chunk |-> [id |-> row.id, file_path |-> row.file_path, source_type |-> row.source_type],
     similarity_score |-> row.similarity]

\* retrieve_chunks from the call of query_similar on: Python raises TypeError
\* when a call passes a keyword the callee does not accept
retrieve_chunks_query(store, embedding_ok, limit, source_types, min_similarity) ==
    IF retrieve_call_keywords \subseteq query_similar_parameters
    THEN LET results == query_similar(store, embedding_ok, limit * 2, source_types, min_similarity)
             kept == Take(results, limit)
         IN Ok([i \in 1..Len(kept) |-> RetrievalResult(kept[i])])
    ELSE Raise("TypeError", "query_similar")

MaxLimit == 2

StoredRows ==
    {ChunkRow("r1", "CS479", "lectures", "a.pdf", "lecture_slides", TRUE, 90),
     ChunkRow("r2", "CS479", "exams", "mid.pdf", "exam", TRUE, 80),
     ChunkRow("r3", "CS240", "lectures", "b.pdf", "lecture_slides", TRUE, 85),
     ChunkRow("r4", "CS240", "course_notes", "n.md", "course_notes", TRUE, 60),
     ChunkRow("r5", "CS479", "lectures", "c.pdf", "lecture_slides", FALSE, 0)}

InitRetrieve ==
    /\ r_pc = "start"
    /\ r_in \in [query : Queries,
                 course_code : {NONE, "CS479"},
                 source_types : {<<>>, <<"lecture_slides">>, <<"lecture_slides", "course_notes">>},
                 limit : 1..MaxLimit,
                 min_similarity : {0, 70},
                 embedding_ok : BOOLEAN]
    /\ r_store \in SUBSET StoredRows
    /\ r_out = NONE /\ r_direct = NONE
    /\ v_pc = "idle" /\ v_in = NONE /\ v_out = NONE
    /\ q_pc = "idle" /\ q_in = NONE /\ q_out = NONE
    /\ c_pc = "idle" /\ c_in = NONE /\ c_out = NONE
    /\ k_pc = "idle" /\ k_in = NONE /\ k_called = NONE /\ k_chunks = NONE /\ k_unique = NONE
    /\ g_pc = "idle" /\ g_in = NONE /\ g_results = NONE /\ g_quality = NONE
    /\ g_llm = NONE /\ g_out = NONE /\ g_trace = NONE
    /\ i_pc = "idle" /\ i_in = NONE /\ i_source_type = NONE /\ i_parsed = NONE
    /\ i_chunks = NONE /\ i_method = NONE /\ i_out = NONE /\ i_trace = NONE
    /\ b_pc = "idle" /\ b_in = NONE /\ b_files = NONE /\ b_idx = NONE /\ b_results = NONE /\ b_failed = NONE /\ b_last = NONE /\ b_out = NONE
    /\ s_pc = "idle" /\ s_in = NONE /\ s_db = NONE /\ s_clock = NONE /\ s_sess = NONE /\ s_loaded = NONE /\ s_new = NONE /\ s_out = NONE
    /\ l_pc = "idle" /\ l_loc = NONE /\ l_out = NONE
    /\ d_pc = "idle" /\ d_out = NONE
    /\ e_embedding = NONE /\ e_llm = NONE /\ e_calls = NONE

others_retrieve == <<vars_validate, vars_quality, vars_citations, vars_chunk, vars_generate,
      vars_ingest, vars_course, vars_store, vars_locator, vars_delete, vars_services>>

\* retrieve_chunks up to the call of query_similar
RetrieveStart ==
    /\ r_pc = "start"
    /\ IF BlankQuery(r_in.query)
       THEN r_out' = Ok(<<>>) /\ r_pc' = "done"
       ELSE r_out' = r_out /\ r_pc' = "query"
    /\ UNCHANGED <<r_in, r_store, r_direct, others_retrieve>>

\* retrieve_chunks from the call of query_similar to its end
RetrieveQuery ==
    /\ r_pc = "query"
    /\ r_out' = retrieve_chunks_query(r_store, r_in.embedding_ok, r_in.limit,
                                      r_in.source_types, r_in.min_similarity)
    /\ r_pc' = "done"
    /\ UNCHANGED <<r_in, r_store, r_direct, others_retrieve>>

\* VectorStore.query_similar called with the arguments its signature has
QuerySimilarCall ==
    /\ r_pc = "start"
    /\ ~BlankQuery(r_in.query)
    /\ r_direct' = query_similar(r_store, r_in.embedding_ok, r_in.limit,
                                 r_in.source_types, r_in.min_similarity)
    /\ r_pc' = "direct"
    /\ UNCHANGED <<r_in, r_store, r_out, others_retrieve>>

NextRetrieve == RetrieveStart \/ RetrieveQuery \/ QuerySimilarCall

SpecRetrieve == InitRetrieve /\ [][NextRetrieve]_vars

\* LIKE with a pattern of the form %middle%
Like(s, pattern) == Contains(s, SubSeq(pattern, 2, Len(pattern) - 1))

\* C11: a call of retrieve_chunks with a non-blank query returns a list of at
\* most `limit` results, each with similarity >= min_similarity, in
\* non-increasing order of similarity.
C11_RetrievalBounds ==
    (r_pc = "done" /\ ~BlankQuery(r_in.query)) =>
        /\ r_out.ok
        /\ Len(r_out.value) <= r_in.limit
        /\ \A n \in 1..Len(r_out.value) :
               r_out.value[n].similarity_score >= r_in.min_similarity
        /\ \A n \in 1..(Len(r_out.value) - 1) :
               r_out.value[n].similarity_score >= r_out.value[n + 1].similarity_score

\* C12: a call of retrieve_chunks with a non-blank query returns a list in
\* which, when a course code is given, every chunk's path matches
\* %/raw/<course_code>/%, and when source types are given, every chunk's
\* source type is one of them.
C12_FiltersHonoured ==
    (r_pc = "done" /\ ~BlankQuery(r_in.query)) =>
        /\ r_out.ok
        /\ TruthyStr(r_in.course_code) =>
               \A n \in 1..Len(r_out.value) :
                   Like(PathStr(r_out.value[n].chunk.file_path),
                        file_path_filter(r_in.course_code))
        /\ r_in.source_types # <<>> =>
               \A n \in 1..Len(r_out.value) :
                   \E t \in 1..Len(r_in.source_types) :
                       r_out.value[n].chunk.source_type = r_in.source_types[t]

(***************************************************************************)
(* ingest.py: discover_course_files, ingest_course                         *)
(*                                                                         *)
(* The course tree is the list of entries course_root.rglob("*") yields,   *)
(* in the order it yields them; an entry is a file or a directory.         *)
(***************************************************************************)
skip_patterns == <<".gitkeep", "README.md", ".git", "__pycache__">>

\* any(pattern in str(file_path) for pattern in skip_patterns)
Skipped(file_path) ==
    \E p \in 1..Len(skip_patterns) : Contains(PathStr(file_path), skip_patterns[p])

RECURSIVE DiscoverFrom_stopAtInvalid(_, _, _)
\* faulty variant: a file that fails validation ends the walk
DiscoverFrom_stopAtInvalid(walk, course_root, valid_files) ==
    IF walk = <<>> THEN valid_files
    ELSE IF ~Head(walk).is_file \/ Skipped(Head(walk).path)
    THEN DiscoverFrom_stopAtInvalid(Tail(walk), course_root, valid_files)
    ELSE IF validate_file_for_ingestion(Head(walk).path, Some(course_root), NONE).ok
    THEN DiscoverFrom_stopAtInvalid(Tail(walk), course_root, Append(valid_files, Head(walk).path))
    ELSE valid_files

RECURSIVE DiscoverFrom(_, _, _)
\* the loop of discover_course_files over the rest of the walk
DiscoverFrom(walk, course_root, valid_files) ==
    IF walk = <<>> THEN valid_files
    ELSE IF ~Head(walk).is_file \/ Skipped(Head(walk).path)
    THEN DiscoverFrom(Tail(walk), course_root, valid_files)
    ELSE IF validate_file_for_ingestion(Head(walk).path, Some(course_root), NONE).ok
    THEN DiscoverFrom(Tail(walk), course_root, Append(valid_files, Head(walk).path))
    ELSE DiscoverFrom(Tail(walk), course_root, valid_files)

discover_course_files(exists, walk, course_root) ==
    IF ~exists THEN Raise("ValueError", "course_root")
    ELSE Ok(DiscoverFrom(walk, course_root, <<>>))

\* the report ingest_file returns
IngestReport(file_path, source_type, chunks, chunking_method) ==
    Ok([file_path |-> file_path, source_type |-> source_type, status |-> "chunked",
        chunks |-> chunks, chunk_count |-> Len(chunks), chunking_method |-> chunking_method])

\* ingest_file after parse_file has returned
ingest_parsed(file_path, source_type, parsed_content) ==
    IngestReport(file_path, source_type,
        Backfill(deduplicate_chunks(
                     chunk_by_source_type(parsed_content.text, file_path, source_type, Nil,
                                          parsed_content.slides, parsed_content.sections)),
                 parsed_content.text, parsed_content.pages),
        get_chunking_method(source_type, parsed_content))

\* ingest_file after validation has returned; `loaded` is Some(documents) for
\* the documents the loader read, Nil when parse_file raises
ingest_validated(file_path, source_type, loaded) ==
    IF loaded = Nil THEN Raise("ValueError", "parse")
    ELSE ingest_parsed(file_path, source_type,
                       parse_file(get_file_extension(file_path), loaded[1]))

\* one whole call of ingest_file
ingest_file(file_path, course_root, source_type, loaded) ==
    IF validate_file_for_ingestion(file_path, course_root, source_type).ok
    THEN ingest_validated(file_path,
             validate_file_for_ingestion(file_path, course_root, source_type).value, loaded)
    ELSE validate_file_for_ingestion(file_path, course_root, source_type)

MaxEntries == 2

CourseRoot == <<"data", "raw", "CS479">>

Entry(dirs, name, is_file) ==
    [path |-> [dirs |-> CourseRoot \o dirs, name |-> name], is_file |-> is_file]

\* entries of a course tree: valid files, files that fail each validation
\* step, files the skip patterns match, a directory
CourseEntries ==
    {Entry(<<"lectures">>, "deck.pptx", TRUE),
     Entry(<<"course_notes">>, "week1.md", TRUE),
     Entry(<<"lectures">>, "week1.md", TRUE),
     Entry(<<"exams", "2023">>, "exam.PDF", TRUE),
     Entry(<<"exams">>, "tool.py", TRUE),
     Entry(<<"lectures">>, ".gitkeep", TRUE),
     Entry(<<"lectures">>, "intro.github.pdf", TRUE),
     Entry(<<>>, "lectures", FALSE)}

\* what parse_file may do for a file
ParseOutcomes(file_path) ==
    {Nil} \cup {Some(documents) : documents \in LoadedDocuments(get_file_extension(file_path))}

InitCourse ==
    /\ b_pc = "start"
    /\ b_in \in [exists : BOOLEAN, walk : DistinctSeqsUpTo(CourseEntries, MaxEntries)]
    /\ b_files = <<>> /\ b_idx = 1 /\ b_results = <<>> /\ b_failed = {}
    /\ b_last = NONE /\ b_out = NONE
    /\ v_pc = "idle" /\ v_in = NONE /\ v_out = NONE
    /\ q_pc = "idle" /\ q_in = NONE /\ q_out = NONE
    /\ c_pc = "idle" /\ c_in = NONE /\ c_out = NONE
    /\ k_pc = "idle" /\ k_in = NONE /\ k_called = NONE /\ k_chunks = NONE /\ k_unique = NONE
    /\ g_pc = "idle" /\ g_in = NONE /\ g_results = NONE /\ g_quality = NONE
    /\ g_llm = NONE /\ g_out = NONE /\ g_trace = NONE
    /\ i_pc = "idle" /\ i_in = NONE /\ i_source_type = NONE /\ i_parsed = NONE
    /\ i_chunks = NONE /\ i_method = NONE /\ i_out = NONE /\ i_trace = NONE
    /\ r_pc = "idle" /\ r_in = NONE /\ r_store = NONE /\ r_out = NONE /\ r_direct = NONE
    /\ s_pc = "idle" /\ s_in = NONE /\ s_db = NONE /\ s_clock = NONE /\ s_sess = NONE /\ s_loaded = NONE /\ s_new = NONE /\ s_out = NONE
    /\ l_pc = "idle" /\ l_loc = NONE /\ l_out = NONE
    /\ d_pc = "idle" /\ d_out = NONE
    /\ e_embedding = NONE /\ e_llm = NONE /\ e_calls = NONE

others_course ==
    <<vars_validate, vars_quality, vars_citations, vars_chunk, vars_generate, vars_ingest,
      vars_retrieve, vars_store, vars_locator, vars_delete, vars_services>>

CourseReport(files, results) ==
    Ok([course_code |-> CourseRoot[Len(CourseRoot)], files_processed |-> Len(results),
        files_total |-> Len(files), results |-> results])

\* ingest_course up to the loop: the root is checked, the files discovered,
\* and an empty list of files ends the call with an empty report
CourseDiscover ==
    /\ b_pc = "start"
    /\ IF ~b_in.exists
       THEN b_files' = b_files /\ b_out' = Raise("ValueError", "course_root") /\ b_pc' = "done"
       ELSE /\ b_files' = discover_course_files(b_in.exists, b_in.walk, CourseRoot).value
            /\ IF b_files' = <<>>
               THEN b_out' = CourseReport(<<>>, <<>>) /\ b_pc' = "done"
               ELSE b_out' = b_out /\ b_pc' = "loop"
    /\ UNCHANGED <<b_in, b_idx, b_results, b_failed, b_last, others_course>>

\* one turn of the loop: ingest_file returns, or raises the validation error
\* (caught, the loop goes on), or raises anything else (ingest_course ends
\* with it)
CourseIngestFile ==
    /\ b_pc = "loop" /\ b_idx <= Len(b_files)
    /\ \E loaded \in ParseOutcomes(b_files[b_idx]) :
          b_last' = ingest_file(b_files[b_idx], Some(CourseRoot), NONE, loaded)
    /\ b_results' = IF b_last'.ok THEN Append(b_results, b_last'.value) ELSE b_results
    /\ b_failed' = IF b_last'.ok THEN b_failed ELSE b_failed \cup {b_files[b_idx]}
    /\ IF b_last'.ok \/ b_last'.error = "IngestionValidationError"
       THEN b_idx' = b_idx + 1 /\ b_out' = b_out /\ b_pc' = "loop"
       ELSE b_idx' = b_idx /\ b_out' = b_last' /\ b_pc' = "done"
    /\ UNCHANGED <<b_in, b_files, others_course>>

\* the loop is over: the report is returned
CourseReturn ==
    /\ b_pc = "loop" /\ b_idx > Len(b_files)
    /\ b_out' = CourseReport(b_files, b_results)
    /\ b_pc' = "done"
    /\ UNCHANGED <<b_in, b_files, b_idx, b_results, b_failed, b_last, others_course>>

NextCourse == CourseDiscover \/ CourseIngestFile \/ CourseReturn

SpecCourse == InitCourse /\ [][NextCourse]_vars

\* the files of the results of a report
ReportedFiles(results) == {results[n].file_path : n \in 1..Len(results)}

\* C13: once ingest_course is over and the ingestion of some discovered file
\* has failed, the call has returned a report, every other discovered file
\* is in its results, and no failed file is counted or listed.
C13_NeverAborts ==
    (b_pc = "done" /\ b_failed # {}) =>
        /\ b_out.ok
        /\ ReportedFiles(b_out.value.results) =
               {b_files[n] : n \in 1..Len(b_files)} \ b_failed
        /\ b_out.value.files_processed = Len(b_files) - Cardinality(b_failed)

\* the files of a walk that the skip patterns do not match and that pass
\* validate_file_for_ingestion with the category inferred, in walk order
ContentFiles(walk) ==
    SelectSeq([n \in 1..Len(walk) |-> walk[n].path],
              LAMBDA p :
                  /\ \E n \in 1..Len(walk) : walk[n].path = p /\ walk[n].is_file
                  /\ ~Skipped(p)
                  /\ validate_format(p).ok
                  /\ infer_source_type_from_path(p, Some(CourseRoot)).ok
                  /\ validate_format_source_type_mapping(
                         p, infer_source_type_from_path(p, Some(CourseRoot)).value).ok)

Procs == {1, 2}

StoreFile == "data/raw/CS479/lectures/a.pdf"

\* a Chunk handed to store_chunks
StoreChunk(id, text, chunk_index) ==
    [id |-> id, file_path |-> StoreFile, source_type |-> "lecture_slides", text |-> text,
     locator |-> Locator(Some(chunk_index), Nil, NONE), chunk_index |-> chunk_index,
     char_start |-> Nil, char_end |-> Nil, heading |-> NONE]

\* ChunkModel(...): the row made of a chunk
NewRow(chunk, clean_text, embedding, now) ==
    [id |-> chunk.id, file_path |-> chunk.file_path, source_type |-> chunk.source_type,
     text |-> clean_text, locator |-> chunk.locator, chunk_index |-> chunk.chunk_index,
     char_start |-> chunk.char_start, char_end |-> chunk.char_end, heading |-> chunk.heading,
     embedding |-> embedding, created_at |-> now, updated_at |-> now]

\* the assignments to an existing row
UpdatedRow(existing, chunk, clean_text, embedding, now) ==
    [existing EXCEPT !.embedding = IF embedding # NONE THEN embedding ELSE @,
                     !.updated_at = now,
                     !.text = clean_text,
                     !.locator = chunk.locator,
                     !.chunk_index = chunk.chunk_index,
                     !.char_start = chunk.char_start,
                     !.char_end = chunk.char_end,
                     !.heading = chunk.heading]

\* chunk.text.replace('\x00', '') if chunk.text else ''
CleanText(text) == ReplaceChar(text, NUL, "")

\* the vector embed_texts returns for a text, None when the service is off
Embedding(text, embed_ok) == IF embed_ok THEN "vector of " \o text ELSE NONE

\* normalized_text[:100]
NormalizedPrefix(text) ==
    LET normalized_text == ReplaceDoubleSpace(ReplaceChar(Strip(text), "\n", " "))
    IN SubSeq(normalized_text, 1, IF Len(normalized_text) < 100 THEN Len(normalized_text) ELSE 100)

\* the rows the first query of _find_existing_chunk matches
ByIndex(db, chunk) ==
    {row \in db : row.file_path = chunk.file_path /\ row.chunk_index = chunk.chunk_index}

\* the rows the second query matches (ILIKE %prefix%)
ByText(db, chunk) ==
    {row \in db : /\ row.file_path = chunk.file_path
                  /\ Contains(Lower(row.text), Lower(NormalizedPrefix(chunk.text)))}

\* what _find_existing_chunk may return: .first() of a query without ORDER BY
\* is any of the rows matched; Nil is None
find_existing_chunk(db, chunk) ==
    IF ByIndex(db, chunk) # {} THEN {Some(row) : row \in ByIndex(db, chunk)}
    ELSE IF ByText(db, chunk) # {} THEN {Some(row) : row \in ByText(db, chunk)}
    ELSE {Nil}

\* the object a session holds for a row a query returned: [orig, cur], the
\* row as first loaded and as the session has changed it
Held(loaded, row) ==
    IF \E e \in loaded : e.orig.id = row.id
    THEN CHOOSE e \in loaded : e.orig.id = row.id
    ELSE [orig |-> row, cur |-> row]

\* UPDATE ... WHERE id = ...: the columns the session changed are written
Flushed(row, loaded) ==
    IF \E e \in loaded : e.orig.id = row.id
    THEN LET e == CHOOSE e \in loaded : e.orig.id = row.id
         IN [f \in DOMAIN row |-> IF e.cur[f] # e.orig[f] THEN e.cur[f] ELSE row[f]]
    ELSE row

\* the primary key refuses a new row whose id is already in the table
PrimaryKeyConflict(db, new) ==
    \E n \in 1..Len(new) : \E row \in db : row.id = new[n].id

MaxStoreChunks == 2

StoreTexts == {"Graphs have nodes.", "Trees are graphs."}

\* the lists of chunks of the file an ingestion hands over: distinct texts,
\* indices from 0, ids of its own
ChunkLists(tag) ==
    {[k \in 1..Len(texts) |-> StoreChunk(tag \o IntStr(k - 1), texts[k], k - 1)] :
        texts \in DistinctSeqsUpTo(StoreTexts, MaxStoreChunks)}

StoredRow(id, text, chunk_index) ==
    NewRow(StoreChunk(id, text, chunk_index), text, NONE, 0)

\* the table before the two executions: empty, or the rows of an earlier
\* ingestion of the file
InitialStores ==
    {{},
     {StoredRow("r0", "Graphs have nodes.", 0)},
     {StoredRow("r0", "Trees are graphs.", 0)},
     {StoredRow("r0", "Graphs have nodes.", 0), StoredRow("r1", "Trees are graphs.", 1)}}

InitStore ==
    /\ s_pc = [p \in Procs |-> "start"]
    /\ s_in \in [chunks : {c \in [Procs -> ChunkLists("a") \cup ChunkLists("b")] :
                              c[1] \in ChunkLists("a")},
                 embed_ok : BOOLEAN,
                 db : InitialStores]
    /\ s_db = s_in.db
    /\ s_clock = 1
    /\ s_sess = [p \in Procs |-> [k |-> 1, now |-> 0, stored_count |-> 0, skipped_count |-> 0,
                                  rows_at_start |-> 0, after_other |-> FALSE, matched |-> {}]]
    /\ s_loaded = [p \in Procs |-> {}]
    /\ s_new = [p \in Procs |-> <<>>]
    /\ s_out = [p \in Procs |-> NONE]
    /\ v_pc = "idle" /\ v_in = NONE /\ v_out = NONE
    /\ q_pc = "idle" /\ q_in = NONE /\ q_out = NONE
    /\ c_pc = "idle" /\ c_in = NONE /\ c_out = NONE
    /\ k_pc = "idle" /\ k_in = NONE /\ k_called = NONE /\ k_chunks = NONE /\ k_unique = NONE
    /\ g_pc = "idle" /\ g_in = NONE /\ g_results = NONE /\ g_quality = NONE
    /\ g_llm = NONE /\ g_out = NONE /\ g_trace = NONE
    /\ i_pc = "idle" /\ i_in = NONE /\ i_source_type = NONE /\ i_parsed = NONE
    /\ i_chunks = NONE /\ i_method = NONE /\ i_out = NONE /\ i_trace = NONE
    /\ r_pc = "idle" /\ r_in = NONE /\ r_store = NONE /\ r_out = NONE /\ r_direct = NONE
    /\ b_pc = "idle" /\ b_in = NONE /\ b_files = NONE /\ b_idx = NONE /\ b_results = NONE /\ b_failed = NONE /\ b_last = NONE /\ b_out = NONE
    /\ l_pc = "idle" /\ l_loc = NONE /\ l_out = NONE
    /\ d_pc = "start" /\ d_out = NONE
    /\ e_embedding = NONE /\ e_llm = NONE /\ e_calls = NONE

others_store ==
    <<vars_validate, vars_quality, vars_citations, vars_chunk, vars_generate, vars_ingest,
      vars_retrieve, vars_course, vars_locator, vars_delete, vars_services>>

\* the rows of the file in the table
FileRows(db) == {row \in db : row.file_path = StoreFile}

\* store_chunks up to the loop: an empty list returns (0, 0); else the
\* embeddings are made and the time is read
StoreBegin(p) ==
    /\ s_pc[p] = "start"
    /\ IF s_in.chunks[p] = <<>>
       THEN /\ s_out' = [s_out EXCEPT ![p] = Ok(<<0, 0>>)]
            /\ s_pc' = [s_pc EXCEPT ![p] = "done"]
            /\ UNCHANGED <<s_clock, s_sess>>
       ELSE /\ s_sess' = [s_sess EXCEPT ![p].now = s_clock,
                                        ![p].rows_at_start = Cardinality(FileRows(s_db)),
                                        ![p].after_other =
                                            \A o \in Procs \ {p} : s_pc[o] = "done"]
            /\ s_clock' = s_clock + 1
            /\ s_pc' = [s_pc EXCEPT ![p] = "loop"]
            /\ s_out' = s_out
    /\ UNCHANGED <<s_in, s_db, s_loaded, s_new, others_store>>

\* one turn of the loop for the chunk and the row found (Nil: none found)
StoreOne(p, chunk, existing) ==
    IF existing # Nil
    THEN /\ s_loaded' =
                [s_loaded EXCEPT ![p] =
                    {e \in @ : e.orig.id # existing[1].id} \cup
                    {[orig |-> Held(s_loaded[p], existing[1]).orig,
                      cur |-> UpdatedRow(Held(s_loaded[p], existing[1]).cur, chunk,
                                         CleanText(chunk.text),
                                         Embedding(chunk.text, s_in.embed_ok),
                                         s_sess[p].now)]}]
         /\ s_new' = s_new
         /\ s_sess' = [s_sess EXCEPT ![p].k = @ + 1, ![p].skipped_count = @ + 1,
                                     ![p].matched = @ \cup {chunk.chunk_index}]
    ELSE /\ s_new' = [s_new EXCEPT ![p] =
                         Append(@, NewRow(chunk, CleanText(chunk.text),
                                          Embedding(chunk.text, s_in.embed_ok),
                                          s_sess[p].now))]
         /\ s_loaded' = s_loaded
         /\ s_sess' = [s_sess EXCEPT ![p].k = @ + 1, ![p].stored_count = @ + 1]

\* the loop body: look the chunk up, then update the row found or add a row
StoreChunkStep(p) ==
    /\ s_pc[p] = "loop"
    /\ s_sess[p].k <= Len(s_in.chunks[p])
    /\ \E existing \in find_existing_chunk(s_db, s_in.chunks[p][s_sess[p].k]) :
          StoreOne(p, s_in.chunks[p][s_sess[p].k], existing)
    /\ UNCHANGED <<s_pc, s_in, s_db, s_clock, s_out, others_store>>

\* faulty variant: the updates of the batch stay written when the commit
\* fails on an insert
StoreCommit_updatesKept(p) ==
    /\ s_pc[p] = "loop"
    /\ s_sess[p].k > Len(s_in.chunks[p])
    /\ IF PrimaryKeyConflict(s_db, s_new[p])
       THEN /\ s_db' = {Flushed(row, s_loaded[p]) : row \in s_db}
            /\ s_out' = [s_out EXCEPT ![p] = Raise("Exception", "commit")]
       ELSE /\ s_db' = {Flushed(row, s_loaded[p]) : row \in s_db} \cup
                       {s_new[p][n] : n \in 1..Len(s_new[p])}
            /\ s_out' \in {[s_out EXCEPT ![p] =
                               Ok(<<s_sess[p].stored_count, s_sess[p].skipped_count>>)],
                            [s_out EXCEPT ![p] = Raise("Exception", "count")]}
    /\ s_pc' = [s_pc EXCEPT ![p] = "done"]
    /\ UNCHANGED <<s_in, s_clock, s_sess, s_loaded, s_new, others_store>>

\* self.db.commit(): the commit fails, is rolled back, and store_chunks
\* raises; or the session's rows are written, and then the count query that
\* follows the commit in the same try block returns or fails, which raises
\* the same exception after the rows were written
StoreCommit(p) ==
    /\ s_pc[p] = "loop"
    /\ s_sess[p].k > Len(s_in.chunks[p])
    /\ IF PrimaryKeyConflict(s_db, s_new[p])
       THEN /\ s_db' = s_db
            /\ s_out' = [s_out EXCEPT ![p] = Raise("Exception", "commit")]
       ELSE /\ s_db' = {Flushed(row, s_loaded[p]) : row \in s_db} \cup
                       {s_new[p][n] : n \in 1..Len(s_new[p])}
            /\ s_out' \in {[s_out EXCEPT ![p] =
                               Ok(<<s_sess[p].stored_count, s_sess[p].skipped_count>>)],
                            [s_out EXCEPT ![p] = Raise("Exception", "count")]}
    /\ s_pc' = [s_pc EXCEPT ![p] = "done"]
    /\ UNCHANGED <<s_in, s_clock, s_sess, s_loaded, s_new, others_store>>

\* delete_chunks_by_file(file_path), called while no store_chunks call is
\* between its first lookup and its commit: the DELETE of the file's rows and
\* its commit, or, when the commit fails, the rollback and the exception
delete_chunks_by_file(commit_ok) ==
    /\ d_pc = "start"
    /\ \A p \in Procs : s_pc[p] # "loop"
    /\ IF commit_ok
       THEN /\ s_db' = s_db \ FileRows(s_db)
            /\ d_out' = Ok(Cardinality(FileRows(s_db)))
       ELSE /\ s_db' = s_db
            /\ d_out' = Raise("Exception", "commit")
    /\ d_pc' = "done"
    /\ UNCHANGED <<s_pc, s_in, s_clock, s_sess, s_loaded, s_new, s_out>>
    /\ UNCHANGED <<vars_validate, vars_quality, vars_citations, vars_chunk, vars_generate,
                   vars_ingest, vars_retrieve, vars_course, vars_locator, vars_services>>

NextStore ==
    \/ \E p \in Procs : StoreBegin(p) \/ StoreChunkStep(p) \/ StoreCommit(p)
    \/ \E commit_ok \in BOOLEAN : delete_chunks_by_file(commit_ok)

SpecStore == InitStore /\ [][NextStore]_vars

\* execution p has committed
Committed(p) == s_pc[p] = "done" /\ s_out[p].ok /\ s_in.chunks[p] # <<>>

\* C17: once two executions of store_chunks for the same file have both
\* committed, the table holds at most one row for every pair of file path
\* and chunk index.
C17_OneRowPerIndex ==
    (Committed(1) /\ Committed(2)) =>
        \A r1, r2 \in s_db :
            (r1.file_path = r2.file_path /\ r1.chunk_index = r2.chunk_index) => r1 = r2

\* a list of chunks without the ids
Content(chunks) ==
    [k \in 1..Len(chunks) |-> [text |-> chunks[k].text, chunk_index |-> chunks[k].chunk_index]]

\* every row the table held at the start is still there with its id, file
\* path, source type and creation time
RowsKept ==
    \A row \in s_in.db :
        \E now \in s_db :
            /\ now.id = row.id /\ now.file_path = row.file_path
            /\ now.source_type = row.source_type /\ now.created_at = row.created_at

\* a committed execution has added no row for a chunk it matched to a
\* stored row
NoRowForMatched(p) ==
    Committed(p) =>
        /\ \A n \in 1..Len(s_new[p]) :
               /\ s_new[p][n].chunk_index \notin s_sess[p].matched
               /\ \E row \in s_db : row.id = s_new[p][n].id
        /\ Len(s_new[p]) + Cardinality(s_sess[p].matched) = Len(s_in.chunks[p])

\* execution p stored, after execution o had committed, the list o stored
StoredTwice(o, p) ==
    /\ Committed(o) /\ Committed(p) /\ s_sess[p].after_other
    /\ Content(s_in.chunks[o]) = Content(s_in.chunks[p])

\* no delete_chunks_by_file call has removed rows
NothingDeleted == d_pc = "start" \/ ~d_out.ok

\* C18: rows matched by store_chunks are updated in place: no row is added
\* for a matched chunk, no stored row loses its id or file path (or any
\* column outside text, locator, chunk index, character range, heading,
\* embedding and update time), and storing the same list of chunks of a file
\* a second time, after the first has committed, leaves the number of rows
\* of the file as the first left it.
C18_MergeInPlace ==
    NothingDeleted =>
        /\ RowsKept
        /\ \A p \in Procs : NoRowForMatched(p)
        /\ \A o, p \in Procs :
               (o # p /\ StoredTwice(o, p)) =>
                   Cardinality(FileRows(s_db)) = s_sess[p].rows_at_start

(***************************************************************************)
(* schemas.py: ChunkLocator.to_citation over the locators the program       *)
(* builds.  A locator is built by a chunker or from a stored row            *)
(* (retrieve.py), ingest_file then overwrites the page of a PDF chunk with  *)
(* the page number the PDF loader reports for the chunk's first line; the   *)
(* loader numbers pages from 0.                                             *)
(***************************************************************************)
MaxPage == 1

\* the page numbers of parsed_content["pages"]
LoaderPages == 0..MaxPage

\* ChunkLocator(page=, slide=, section=, paragraph=, line_range=)
BuiltLocators ==
    [page : {Nil} \cup {Some(n) : n \in 1..MaxPage},
     slide : {Nil, Some(1), Some(3)},
     section : {NONE, "2.1", "Problem 3"},
     paragraph : {Nil, Some(2)},
     line_range : {Nil, <<3, 7>>}]

InitLocator ==
    /\ l_pc = "built"
    /\ l_loc \in BuiltLocators
    /\ l_out = NONE
    /\ v_pc = "idle" /\ v_in = NONE /\ v_out = NONE
    /\ q_pc = "idle" /\ q_in = NONE /\ q_out = NONE
    /\ c_pc = "idle" /\ c_in = NONE /\ c_out = NONE
    /\ k_pc = "idle" /\ k_in = NONE /\ k_called = NONE /\ k_chunks = NONE /\ k_unique = NONE
    /\ g_pc = "idle" /\ g_in = NONE /\ g_results = NONE /\ g_quality = NONE
    /\ g_llm = NONE /\ g_out = NONE /\ g_trace = NONE
    /\ i_pc = "idle" /\ i_in = NONE /\ i_source_type = NONE /\ i_parsed = NONE
    /\ i_chunks = NONE /\ i_method = NONE /\ i_out = NONE /\ i_trace = NONE
    /\ r_pc = "idle" /\ r_in = NONE /\ r_store = NONE /\ r_out = NONE /\ r_direct = NONE
    /\ b_pc = "idle" /\ b_in = NONE /\ b_files = NONE /\ b_idx = NONE /\ b_results = NONE /\ b_failed = NONE /\ b_last = NONE /\ b_out = NONE
    /\ s_pc = "idle" /\ s_in = NONE /\ s_db = NONE /\ s_clock = NONE /\ s_sess = NONE /\ s_loaded = NONE /\ s_new = NONE /\ s_out = NONE
    /\ d_pc = "idle" /\ d_out = NONE
    /\ e_embedding = NONE /\ e_llm = NONE /\ e_calls = NONE

others_locator ==
    <<vars_validate, vars_quality, vars_citations, vars_generate, vars_chunk, vars_ingest,
      vars_retrieve, vars_course, vars_store, vars_delete, vars_services>>

\* ingest_file: chunk.locator.page = pages[i]
LocatorPage(page) ==
    /\ l_pc = "built"
    /\ l_loc' = [l_loc EXCEPT !.page = Some(page)]
    /\ l_pc' = "paged"
    /\ UNCHANGED <<l_out, others_locator>>

\* ChunkLocator.to_citation
LocatorCitation ==
    /\ l_pc \in {"built", "paged"}
    /\ l_out' = ChunkLocator_to_citation(l_loc)
    /\ l_pc' = "cited"
    /\ UNCHANGED <<l_loc, others_locator>>

NextLocator ==
    \/ \E page \in LoaderPages : LocatorPage(page)
    \/ LocatorCitation

SpecLocator == InitLocator /\ [][NextLocator]_vars

\* the parts of the populated fields of a locator, in the order section,
\* page, slide, paragraph, line range
PopulatedParts(locator) ==
       (IF locator.section # NONE THEN <<"Section " \o locator.section>> ELSE <<>>)
    \o (IF locator.page # Nil THEN <<"page " \o IntStr(locator.page[1])>> ELSE <<>>)
    \o (IF locator.slide # Nil THEN <<"slide " \o IntStr(locator.slide[1])>> ELSE <<>>)
    \o (IF locator.paragraph # Nil
        THEN <<"paragraph " \o IntStr(locator.paragraph[1])>> ELSE <<>>)
    \o (IF locator.line_range # Nil
        THEN <<"lines " \o IntStr(locator.line_range[1]) \o "-"
                        \o IntStr(locator.line_range[2])>>
        ELSE <<>>)

\* C19: the citation of a locator lists its populated fields in the order
\* section, page, slide, paragraph, line range, joined by ", ", whatever the
\* combination of populated fields, and is "unknown location" exactly when
\* no field is populated.
C19_ListsPopulatedFields ==
    l_pc = "cited" =>
        /\ PopulatedParts(l_loc) # <<>> => l_out = Join(PopulatedParts(l_loc), ", ")
        /\ l_out = "unknown location" <=> PopulatedParts(l_loc) = <<>>

\* the ids of the retrieved chunks whose citation is in the validated list of
\* the result
CitedByValidated ==
    {g_results[i].chunk.id : i \in {n \in 1..Len(g_results) :
        \E j \in 1..Len(g_out.value.citations) :
            g_out.value.citations[j] = Chunk_to_citation(g_results[n].chunk)}}

\* C20: in a result of generate_answer, chunks_used holds exactly the ids of
\* the retrieved chunks whose citation is in the result's validated
\* citations, whichever rule of the validation accepted the citation.
C20_ChunksUsedOfValidated ==
    (g_pc = "done" /\ g_out.ok) =>
        {g_out.value.chunks_used[k] : k \in 1..Len(g_out.value.chunks_used)} = CitedByValidated

\* C21: the completion service is called only after retrieve_chunks returned
\* a non-empty list and the quality gate was evaluated, and only when the
\* gate found the retrieval sufficient or strict_quality_check is false; a
\* request that is not strict and whose retrieval is insufficient goes on to
\* the completion service, and its result carries is_sufficient = FALSE.
C21_CompletionAfterGate ==
    /\ \A i \in 1..Len(g_trace) :
           g_trace[i] = "llm_generate_answer" =>
               /\ g_results # <<>>
               /\ \E j \in 1..(i - 1) : g_trace[j] = "retrieve_chunks"
               /\ \E j \in 1..(i - 1) : g_trace[j] = "_assess_retrieval_quality"
               /\ g_quality.is_sufficient \/ ~g_in.strict_quality_check
    /\ (/\ g_pc = "done"
        /\ Called(g_trace, "_assess_retrieval_quality")
        /\ ~g_in.strict_quality_check
        /\ ~g_quality.is_sufficient) =>
           /\ Called(g_trace, "get_llm_service")
           /\ g_out.ok => /\ Called(g_trace, "llm_generate_answer")
                          /\ ~g_out.value.retrieval_quality.is_sufficient

\* C21 witness: a request that is not strict, with an insufficient
\* retrieval, was answered by the completion service.
C21_Witness ==
    /\ g_pc = "done"
    /\ g_out.ok
    /\ ~g_in.strict_quality_check
    /\ ~g_quality.is_sufficient
    /\ Called(g_trace, "llm_generate_answer")
    /\ ~g_out.value.retrieval_quality.is_sufficient

(***************************************************************************)
(* Locator backfill of ingest_file, stated on the text the parser returned *)
(***************************************************************************)
\* key begins at the 0-based offset of text
BeginsAt(text, offset, key) ==
    /\ offset + Len(key) <= Len(text)
    /\ SubSeq(text, offset + 1, offset + Len(key)) = key

\* key occurs somewhere in text
Occurs(text, key) == \E offset \in 0..Len(text) : BeginsAt(text, offset, key)

\* newlines become spaces and pairs of spaces one space
WhitespaceNormalized(s) == ReplaceDoubleSpace(ReplaceChar(s, "\n", " "))

\* the 50-character prefix of the chunk's text is found in the text, exactly
\* or after whitespace normalization of both
PrefixLocated(chunk_text, text) ==
    \/ Occurs(text, SearchKey(chunk_text))
    \/ Occurs(WhitespaceNormalized(text), SearchKey(WhitespaceNormalized(chunk_text)))

\* the 0-based number of the line of text that holds the offset: the number
\* of newlines before it
LineHolding(text, offset) ==
    Cardinality({i \in 1..offset : i <= Len(text) /\ CharAt(text, i) = "\n"})

\* ingest_file returned for a file whose parser gave per-line page numbers
Backfilled == i_pc = "done" /\ i_out.ok /\ i_parsed.pages # <<>>

\* C22: when the parser returned per-line page numbers, a chunk whose
\* 50-character prefix is located gets char_start and char_end and the page
\* recorded for the line of the text that holds char_start; a chunk whose
\* prefix is not located keeps page, char_start and char_end unset; the call
\* returns its report in both cases.
C22_BackfillSetsPage ==
    Backfilled =>
        \A k \in 1..Len(i_chunks) :
            IF PrefixLocated(i_chunks[k].text, i_parsed.text)
            THEN /\ i_chunks[k].char_start # Nil
                 /\ i_chunks[k].char_end # Nil
                 /\ LineHolding(i_parsed.text, i_chunks[k].char_start[1]) < Len(i_parsed.pages)
                 /\ i_chunks[k].locator.page =
                       i_parsed.pages[LineHolding(i_parsed.text, i_chunks[k].char_start[1]) + 1]
            ELSE /\ i_chunks[k].char_start = Nil
                 /\ i_chunks[k].char_end = Nil
                 /\ i_chunks[k].locator.page = Nil

\* C22 witness: a chunk of a two-page PDF that begins on the first line of
\* the second page has its offsets and page 1 (the loader's number of the
\* second page).
C22_Witness ==
    /\ Backfilled
    /\ \E k \in 1..Len(i_chunks) :
          /\ i_chunks[k].text = "Prove it for all n."
          /\ i_chunks[k].char_start = Some(56)
          /\ i_chunks[k].char_end = Some(75)
          /\ i_chunks[k].locator.page = Some(1)

\* C23: a char_start set by the backfill is an offset of the parsed text at
\* which the chunk's 50-character prefix begins, exactly or up to whitespace
\* normalization, and char_end is char_start plus the length of the chunk's
\* text.
C23_OffsetIntoText ==
    Backfilled =>
        \A k \in 1..Len(i_chunks) :
            i_chunks[k].char_start # Nil =>
                LET offset == i_chunks[k].char_start[1]
                    rest == SubSeq(i_parsed.text, offset + 1, Len(i_parsed.text))
                IN /\ \/ BeginsAt(i_parsed.text, offset, SearchKey(i_chunks[k].text))
                      \/ BeginsAt(WhitespaceNormalized(rest), 0,
                                  SearchKey(WhitespaceNormalized(i_chunks[k].text)))
                   /\ i_chunks[k].char_end = Some(offset + Len(i_chunks[k].text))

\* chunk_problem_set found at least one problem in the text
ProblemsFound(text) == CollectProblems(PatternSplit(text, 1), 0, Nil, <<>>, <<>>) # <<>>

\* the strategy that produced the chunks of the report: the one
\* chunk_by_source_type called, or the paragraph split chunk_problem_set
\* fell back to
StrategyUsed ==
    LET called == Strategy(i_source_type, i_parsed.slides, i_parsed.sections)
    IN IF called = "chunk_problem_set" /\ ~ProblemsFound(i_parsed.text)
       THEN "chunk_by_paragraphs"
       ELSE called

\* C24: the chunking_method of the report of ingest_file names the strategy
\* that produced the chunks: it says "by_problems" only when
\* chunk_problem_set found a marker and split by problems, and names the
\* paragraph split whenever the paragraph split produced the chunks.
C24_MethodNamesStrategy ==
    (i_pc = "done" /\ i_out.ok) =>
        /\ i_out.value.chunking_method = "by_problems" => StrategyUsed = "chunk_problem_set"
        /\ StrategyUsed = "chunk_by_paragraphs" =>
              i_out.value.chunking_method \in
                  {"by_paragraphs", "by_paragraphs (fallback)", "by_paragraphs (default)"}

\* a text whose heading lines all stand at the start of a line and end it,
\* whatever the bodies hold
HeadingLinesDoc(doc) ==
    /\ doc.blocks # <<>>
    /\ \A n \in 1..Len(doc.blocks) : doc.blocks[n].kind \in {"problem", "question"}

\* C25: in the problem-set split only a marker at the start of a line starts
\* a problem: keyword and number in the middle or at the end of a line of a
\* body neither split the body nor change the tag of the text after them, so
\* a body of at least 10 characters is the one chunk tagged with the number
\* of its own heading line.
C25_MarkersAtLineStart ==
    (k_pc # "call" /\ k_in.source_type \in ProblemCategories /\ HeadingLinesDoc(k_in.doc)) =>
        \A n \in 1..Len(k_in.doc.blocks) :
            Len(k_in.doc.blocks[n].norm) >= 10 =>
                /\ Cardinality(TaggedProblem(k_chunks, n)) = 1
                /\ \A i \in TaggedProblem(k_chunks, n) :
                      k_chunks[i].text = k_in.doc.blocks[n].norm

\* the step is the commit of execution p of store_chunks, and it fails
StoreCommitFails(p) ==
    s_pc[p] = "loop" /\ s_pc'[p] = "done" /\ ~s_out'[p].ok /\ s_out'[p].step = "commit"

\* the step is a delete_chunks_by_file call whose commit fails
DeleteCommitFails == d_pc = "start" /\ d_pc' = "done" /\ ~d_out'.ok

\* C26: a store_chunks call whose commit fails raises and leaves the table
\* as it was: none of the rows it added and none of its updates in place is
\* written; a delete_chunks_by_file call whose commit fails raises and
\* removes nothing.
C26_FailedCommitWritesNothing ==
    [][/\ \A p \in Procs :
              StoreCommitFails(p) => (s_db' = s_db /\ s_out'[p].error = "Exception")
       /\ DeleteCommitFails => (s_db' = s_db /\ d_out'.error = "Exception")]_vars

\* C26 witness: a batch holding an update in place and a new row has failed
\* at its commit and the table still holds the row the batch had matched,
\* as it was; a delete call has failed too and the file still has rows.
C26_Witness ==
    /\ \E p \in Procs :
          /\ s_pc[p] = "done" /\ ~s_out[p].ok /\ s_out[p].step = "commit"
          /\ s_new[p] # <<>>
          /\ \E e \in s_loaded[p] : e.cur # e.orig /\ e.orig \in s_db
    /\ d_pc = "done" /\ ~d_out.ok
    /\ FileRows(s_db) # {}

(***************************************************************************)
(* services/embeddings.py, services/llm.py: the process-wide services      *)
(* A service record holds the module's global (Nil: None, else the number   *)
(* of the instance), the instance's fields, and what the calls so far      *)
(* returned: the instances handed out, the number of constructions of the  *)
(* client attempted, and the first and the last result of is_available.    *)
(***************************************************************************)
MaxCalls == 8

\* how the construction of the clients may end: no API key, the first client
\* raises, the chat model raises after the first client was built, or all
\* are built
EmbeddingOutcomes == {"no_key", "client_raises", "ok"}
LlmOutcomes == {"no_key", "client_raises", "chat_model_raises", "ok"}

\* the module before the first call: _embedding_service = None
NoService ==
    [global |-> Nil, created |-> 0, initialized |-> FALSE, client |-> FALSE,
     chat_model |-> FALSE, handed |-> {}, attempts |-> 0, first |-> Nil, last |-> Nil]

InitServices ==
    /\ e_embedding = NoService
    /\ e_llm = NoService
    /\ e_calls = 0
    /\ v_pc = "idle" /\ v_in = NONE /\ v_out = NONE
    /\ q_pc = "idle" /\ q_in = NONE /\ q_out = NONE
    /\ c_pc = "idle" /\ c_in = NONE /\ c_out = NONE
    /\ k_pc = "idle" /\ k_in = NONE /\ k_called = NONE /\ k_chunks = NONE /\ k_unique = NONE
    /\ g_pc = "idle" /\ g_in = NONE /\ g_results = NONE /\ g_quality = NONE
    /\ g_llm = NONE /\ g_out = NONE /\ g_trace = NONE
    /\ i_pc = "idle" /\ i_in = NONE /\ i_source_type = NONE /\ i_parsed = NONE
    /\ i_chunks = NONE /\ i_method = NONE /\ i_out = NONE /\ i_trace = NONE
    /\ r_pc = "idle" /\ r_in = NONE /\ r_store = NONE /\ r_out = NONE /\ r_direct = NONE
    /\ b_pc = "idle" /\ b_in = NONE /\ b_files = NONE /\ b_idx = NONE /\ b_results = NONE /\ b_failed = NONE /\ b_last = NONE /\ b_out = NONE
    /\ s_pc = "idle" /\ s_in = NONE /\ s_db = NONE /\ s_clock = NONE /\ s_sess = NONE /\ s_loaded = NONE /\ s_new = NONE /\ s_out = NONE
    /\ d_pc = "idle" /\ d_out = NONE
    /\ l_pc = "idle" /\ l_loc = NONE /\ l_out = NONE

others_services ==
    <<vars_validate, vars_quality, vars_citations, vars_generate, vars_chunk, vars_ingest,
      vars_retrieve, vars_course, vars_store, vars_locator, vars_delete>>

\* get_embedding_service, get_llm_service: create the instance if the global
\* is None, return the global
get_service(service) ==
    IF service.global = Nil
    THEN [service EXCEPT !.global = Some(service.created + 1),
                         !.created = service.created + 1,
                         !.initialized = FALSE, !.client = FALSE, !.chat_model = FALSE,
                         !.handed = service.handed \cup {service.created + 1}]
    ELSE [service EXCEPT !.handed = service.handed \cup {service.global[1]}]

\* what the call of is_available returned is recorded
Returned(service, result) ==
    [service EXCEPT !.first = IF service.first = Nil THEN Some(result) ELSE service.first,
                    !.last = Some(result)]

\* EmbeddingService._initialize, called by is_available
EmbeddingService_initialize(service, outcome) ==
    IF service.initialized
    THEN Returned(service, service.client)
    ELSE Returned([service EXCEPT !.initialized = TRUE,
                                  !.attempts = service.attempts + 1,
                                  !.client = (outcome = "ok")],
                  outcome = "ok")

\* LLMService._initialize, called by is_available: self._client is assigned
\* before the chat model is built
LLMService_initialize(service, outcome) ==
    IF service.initialized
    THEN Returned(service, service.client)
    ELSE Returned([service EXCEPT !.initialized = TRUE,
                                  !.attempts = service.attempts + 1,
                                  !.client = (outcome \in {"chat_model_raises", "ok"}),
                                  !.chat_model = (outcome = "ok")],
                  outcome = "ok")

GetEmbeddingService ==
    /\ e_calls < MaxCalls
    /\ e_embedding' = get_service(e_embedding)
    /\ e_calls' = e_calls + 1
    /\ UNCHANGED <<e_llm, others_services>>

GetLlmService ==
    /\ e_calls < MaxCalls
    /\ e_llm' = get_service(e_llm)
    /\ e_calls' = e_calls + 1
    /\ UNCHANGED <<e_embedding, others_services>>

\* is_available() of the embedding service in hand
EmbeddingIsAvailable(outcome) ==
    /\ e_calls < MaxCalls
    /\ e_embedding.global # Nil
    /\ e_embedding' = EmbeddingService_initialize(e_embedding, outcome)
    /\ e_calls' = e_calls + 1
    /\ UNCHANGED <<e_llm, others_services>>

\* is_available() of the completion service in hand
LlmIsAvailable(outcome) ==
    /\ e_calls < MaxCalls
    /\ e_llm.global # Nil
    /\ e_llm' = LLMService_initialize(e_llm, outcome)
    /\ e_calls' = e_calls + 1
    /\ UNCHANGED <<e_embedding, others_services>>

NextServices ==
    \/ GetEmbeddingService
    \/ GetLlmService
    \/ \E outcome \in EmbeddingOutcomes : EmbeddingIsAvailable(outcome)
    \/ \E outcome \in LlmOutcomes : LlmIsAvailable(outcome)

SpecServices == InitServices /\ [][NextServices]_vars

\* one instance handed out, one construction attempted at most, and
\* is_available answering as it first did
CreatedOnce(service) ==
    /\ Cardinality(service.handed) <= 1
    /\ service.attempts <= 1
    /\ service.first # Nil => service.last = service.first

\* C27: over any sequence of calls, get_embedding_service and
\* get_llm_service each return one and the same instance, each service
\* attempts the construction of its client at most once, and is_available
\* keeps returning what the first attempt returned.
C27_ServicesCreatedOnce == CreatedOnce(e_embedding) /\ CreatedOnce(e_llm)

\* C28: every entry of the list _validate_citations returns is the citation
\* of one of the retrieved chunks, also when the claimed citation was
\* accepted by the case-insensitive or substring rule, and the list is no
\* longer than the list of claimed citations.
C28_ValidatedAreAvailable ==
    c_pc = "done" =>
        /\ \A k \in 1..Len(c_out) : c_out[k] \in ValidCitations(c_in.retrieval_results)
        /\ Len(c_out) <= Len(c_in.citations)

\* C28 witness: an extended and a shortened claim were both replaced by the
\* citations of the retrieved chunks they matched.
C28_Witness ==
    /\ c_pc = "done"
    /\ c_in.citations = <<"Deck.pptx, slide 2 (title)", "a.pdf">>
    /\ ValidCitations(c_in.retrieval_results) = {"a.pdf, page 3", "Deck.pptx, slide 2"}
    /\ c_out = <<"Deck.pptx, slide 2", "a.pdf, page 3">>

\* the step is the successful commit of execution p of store_chunks, made
\* while no other call has touched the table since the start
CommitsAlone(p) ==
    /\ s_pc[p] = "loop" /\ s_pc'[p] = "done" /\ s_out'[p].ok
    /\ \A o \in Procs \ {p} : s_pc[o] = "start"
    /\ d_pc = "start"

\* C29: once a store_chunks call has committed, every chunk of its batch has
\* a row with the chunk's file path, chunk index and text; a chunk with a new
\* chunk index whose text is found in a stored row of the file does not take
\* that row from the chunk of the batch that owns it.
C29_BatchRepresented ==
    [][\A p \in Procs :
          CommitsAlone(p) =>
              \A k \in 1..Len(s_in.chunks[p]) :
                  \E row \in s_db' :
                      /\ row.file_path = s_in.chunks[p][k].file_path
                      /\ row.chunk_index = s_in.chunks[p][k].chunk_index
                      /\ row.text = s_in.chunks[p][k].text]_vars

\* the 1-indexed positions of the slides that are long enough to be kept
KeptSlides(slides) == {n \in 1..Len(slides) : ~TooShort(normalize_text(slides[n]))}

\* C30: in the one-chunk-per-slide split the slide of every chunk is the
\* 1-indexed position of its slide in the list of slides given, also after
\* a discarded slide (the numbers then skip a value), the chunks come in the
\* order of the slides, one for every slide kept, and their chunk_index
\* values are 0..n-1 in that order.
C30_SlideNumbers ==
    (k_pc # "call" /\ k_called = "chunk_by_slides") =>
        /\ \A i \in 1..Len(k_chunks) :
              /\ k_chunks[i].chunk_index = i - 1
              /\ k_chunks[i].locator.slide # Nil
              /\ k_chunks[i].locator.slide[1] \in KeptSlides(k_in.slides)
              /\ k_chunks[i].text = normalize_text(k_in.slides[k_chunks[i].locator.slide[1]])
        /\ \A i, j \in 1..Len(k_chunks) :
              i < j => k_chunks[i].locator.slide[1] < k_chunks[j].locator.slide[1]
        /\ Len(k_chunks) = Cardinality(KeptSlides(k_in.slides))

\* C30 witness: of five slides the third is too short; the chunk of the
\* fourth slide has slide 4 and chunk_index 2.
C30_Witness ==
    /\ k_pc = "chunked" /\ k_called = "chunk_by_slides"
    /\ Len(k_in.slides) = 5 /\ k_in.slides[3] = "ab"
    /\ Len(k_chunks) = 4
    /\ k_chunks[3].locator.slide = Some(4) /\ k_chunks[3].chunk_index = 2
    /\ k_chunks[4].locator.slide = Some(5) /\ k_chunks[4].chunk_index = 3

====
